---- MODULE Spec2Model ----
(***************************************************************************)
(* A model of bredos/dt.py: the device-tree identification engine.        *)
(*                                                                         *)
(*   SpecDiff    diff_dts as a pure function over texts                    *)
(*   SpecDetect  detect_live: one task per candidate base tree, consumed   *)
(*               in completion order inside a ProcessPoolExecutor block    *)
(*   SpecCache   extract_dtb_info and gencache over the process-wide       *)
(*               dtcache                                                   *)
(*   SpecRoot    the module-level loop that chooses DTB_PATH               *)
(*   SpecKV      parse_uboot/encode_uboot and parse_grub/encode_grub       *)
(*   SpecExt     parse_extlinux_conf line by line, serialize_extlinux_conf *)
(*   SpecScalar  _parse_scalar as a pure function over value texts         *)
(*   SpecYaml    parse_dtc_yaml line by line, then _flatten                *)
(*   SpecOverlays  identify_overlays with booted_with_edk, detect_efidir   *)
(*               and the boot configs it reads                             *)
(*                                                                         *)
(* A text is a sequence of characters; NL is the line terminator.  The    *)
(* external compiler (dtc) is the environment: for every file it either   *)
(* exits non-zero or prints a text, and the executable may be missing.    *)
(***************************************************************************)
EXTENDS Integers, Sequences, FiniteSets, TLC

VARIABLES
    \* ---- diff_dts applied to a pair of texts
    df_base, df_live, df_out, df_pc,
    \* ---- environment of detect_live
    dtcInstalled,   \* the dtc executable can be started
    DTB_PATH,       \* catalog root chosen at import time, or None
    liveOut,        \* what dtc does with /proc/device-tree
    dtcOut,         \* what dtc does with every candidate *.dtb
    \* ---- detect_live
    dl_pc, live_dts_str, live_hash, task, taskResult, observed,
    min_diff, best_match, best_dts, dl_ret, dl_exc,
    \* ---- catalog files and the process-wide metadata cache
    disk,           \* what dtc and the parser make of every file
    rewrites,       \* how often a file was replaced on disk
    dtcache,
    \* ---- gencache
    g_pc, res, futures, g_task, g_result, g_observed, g_exc, g_ret,
    preCache,       \* dtcache as it was when gencache was called
    \* ---- the last step: compiler runs, extract_dtb_info's call and return
    lastDtc, e_ret,
    \* ---- the loop that chooses DTB_PATH when the module is imported
    fsys,           \* what there is at every path the patterns can match
    pattern_i,      \* index into candidates of the next pattern; 0 = not imported
    \* ---- the key=value codecs: parse, encode, parse again
    kv_codec,       \* "uboot" or "grub"
    kv_file,        \* /etc/default/u-boot or /etc/default/grub
    kv_pc, kv_config, kv_text, kv_again,
    \* ---- the boot-menu codec: parse line by line, serialize, parse again
    x_source,       \* the text handed to parse_extlinux_conf
    x_i,            \* index of the next line of the loop over lines
    current_label, x_config, x_pc, x_text, x_again,
    \* ---- _parse_scalar applied to a value text
    ps_val, ps_out, ps_pc,
    \* ---- parse_dtc_yaml
    y_data,         \* the text handed to parse_dtc_yaml
    y_i,            \* index of the next line of the loop over lines
    y_root,         \* the tree under construction
    y_stack,        \* stack, indents and last_keys: one frame per open mapping
    y_pc, y_out,
    \* ---- identify_overlays
    journalctl,     \* what `journalctl -b` does on this host
    df,             \* what `df` does on this host
    overlays_dir,   \* the directory <efi>/dtb/overlays of the EFI directory found
    uboot_file,     \* /etc/default/u-boot
    extlinux_file,  \* /boot/extlinux/extlinux.conf
    io_pc, efi, io_out

diffVars == <<df_base, df_live, df_out, df_pc>>
detectEnv == <<dtcInstalled, DTB_PATH, liveOut, dtcOut>>
detectVars == <<dl_pc, live_dts_str, live_hash, task, taskResult, observed,
                min_diff, best_match, best_dts, dl_ret, dl_exc>>
cacheVars == <<disk, rewrites, dtcache, g_pc, res, futures, g_task, g_result,
               g_observed, g_exc, g_ret, preCache, lastDtc, e_ret>>
rootVars == <<fsys, pattern_i>>
kvVars == <<kv_codec, kv_file, kv_pc, kv_config, kv_text, kv_again>>
extVars == <<x_source, x_i, current_label, x_config, x_pc, x_text, x_again>>
scalarVars == <<ps_val, ps_out, ps_pc>>
yamlVars == <<y_data, y_i, y_root, y_stack, y_pc, y_out>>
overlayVars ==
    <<journalctl, df, overlays_dir, uboot_file, extlinux_file, io_pc, efi, io_out>>
codecVars == <<rootVars, kvVars, extVars, scalarVars, yamlVars, overlayVars>>
vars == <<diffVars, detectEnv, detectVars, cacheVars, codecVars>>

\* what the actions of one operation leave alone
outsideDiff == <<detectEnv, detectVars, cacheVars, codecVars>>
outsideDetect == <<detectEnv, diffVars, cacheVars, codecVars>>
outsideCache == <<diffVars, detectVars, liveOut, dtcOut, codecVars>>

----------------------------------------------------------------------------
(* Bounds *)

\* longest text handed to diff_dts in SpecDiff
MaxTextLen == 3
\* number of candidate *.dtb files under the catalog root in SpecDetect
NumCandidates == 2
\* number of times a file is replaced on disk in SpecCache
MaxRewrites == 1
\* number of kernel versions under /usr/lib/modules in SpecRoot
NumVersions == 2
\* longest value of the generated KEY=value line in SpecKV
MaxValLen == 3
\* number of lines of the text handed to parse_extlinux_conf in SpecExt
MaxExtLines == 3
\* number of pieces a value text handed to _parse_scalar is made of in
\* SpecScalar
MaxPieces == 3
\* number of lines of the text handed to parse_dtc_yaml in SpecYaml
MaxYamlLines == 3

----------------------------------------------------------------------------
(* Texts *)

NL == "\n"
None == "None"

\* characters of the texts diff_dts is applied to in SpecDiff
DiffChars == {"x", "y", NL}

RECURSIVE SeqsUpTo(_, _)
SeqsUpTo(S, n) ==
    IF n = 0 THEN {<<>>}
    ELSE LET shorter == SeqsUpTo(S, n - 1)
         IN  shorter \cup {Append(s, c) : s \in {t \in shorter : Len(t) = n - 1}, c \in S}

DiffTexts == SeqsUpTo(DiffChars, MaxTextLen)

\* str.splitlines(): the lines of a text without their terminators; a last
\* line needs no terminator and an empty text has no line
splitlines(s) ==
    LET \* where the lines end: at every NL, and after the last character if
        \* that is no NL
        ends == {i \in 1..Len(s) : s[i] = NL}
                    \cup (IF s # <<>> /\ s[Len(s)] # NL THEN {Len(s) + 1} ELSE {})
        End(k) == CHOOSE e \in ends : Cardinality({x \in ends : x < e}) = k - 1
    IN  [k \in 1..Cardinality(ends) |->
            SubSeq(s, IF k = 1 THEN 1 ELSE End(k - 1) + 1, End(k) - 1)]

\* set(...) of a list
ToSet(seq) == {seq[i] : i \in 1..Len(seq)}

diff_dts_reversed(base_dts, live_dts) ==
    ToSet(splitlines(base_dts)) \ ToSet(splitlines(live_dts))

\* diff_dts: the result is a list built from a set, so it is modelled as the
\* set itself (its order is unspecified, its elements are distinct)
diff_dts(base_dts, live_dts) ==
    LET base_lines == ToSet(splitlines(base_dts))
        live_lines == ToSet(splitlines(live_dts))
    IN  live_lines \ base_lines

\* hash_str: SHA-256 of the encoded text, taken as injective on texts
hash_str(data) == <<"sha256", data>>

----------------------------------------------------------------------------
(* SpecDiff: diff_dts on every pair of texts up to MaxTextLen *)

InitDiff ==
    /\ df_base \in DiffTexts
    /\ df_live \in DiffTexts
    /\ df_out = {}
    /\ df_pc = "call"

ApplyDiff ==
    /\ df_pc = "call"
    /\ df_out' = diff_dts(df_base, df_live)
    /\ df_pc' = "done"
    /\ UNCHANGED <<df_base, df_live>>

----------------------------------------------------------------------------
(* The compiler adapter *)

NoneV == [kind |-> "none"]
Val(v) == [kind |-> "value", v |-> v]
Raise(e) == [kind |-> "raise", exc |-> e]

\* what a dtc run does: exit status 0 with a text on stdout, or a non-zero
\* exit status
Exit0(text) == [rc |-> 0, stdout |-> text]
ExitNonZero == [rc |-> 1, stdout |-> <<>>]

\* subprocess.check_output(["dtc", ...]): the captured stdout; raises
\* CalledProcessError on a non-zero exit and FileNotFoundError when the
\* executable cannot be started
check_output(installed, run) ==
    IF ~installed THEN Raise("FileNotFoundError")
    ELSE IF run.rc # 0 THEN Raise("CalledProcessError")
    ELSE Val(run.stdout)

\* try: ... except subprocess.CalledProcessError: return None
ExceptCalledProcessError(r) ==
    IF r.kind = "raise" /\ r.exc = "CalledProcessError" THEN NoneV ELSE r

\* the file behind a path: a candidate of detect_live or a catalog file
FileAt(path) == IF "name" \in DOMAIN path THEN dtcOut[path.name] ELSE disk[path]

dtb_to_dts(dtb_path) ==
    ExceptCalledProcessError(check_output(dtcInstalled, FileAt(dtb_path)))

fdt_hash_from_proc ==
    ExceptCalledProcessError(check_output(dtcInstalled, liveOut))

----------------------------------------------------------------------------
(* detect_live *)

Ln(c) == <<c, NL>>

\* texts dtc prints for the live tree and the candidates: never empty (a
\* successful dtc run prints at least the /dts-v1/ header)
TA == Ln("x") \o Ln("y")
TB == Ln("x") \o Ln("y") \o Ln("z")
TL == Ln("x") \o Ln("y") \o Ln("z") \o Ln("w")
\* the lines of TL in another order
TP == Ln("y") \o Ln("x") \o Ln("z") \o Ln("w")
\* as far from TL as TB is
TD == Ln("x") \o Ln("y") \o Ln("w")
\* TA without its last line terminator
TN == <<"x", NL, "y">>

DtsTexts == {TA, TB, TL, TP, TD, TN}
DtcRuns == {Exit0(t) : t \in DtsTexts} \cup {ExitNonZero}

\* list(DTB_PATH.rglob("*.dtb")): the candidates in the candidate ordering
Cands == 1..NumCandidates
CandPath(c) == [root |-> DTB_PATH, name |-> c]
\* Path.relative_to(DTB_PATH)
relative_to(path, root) == path.name

\* float("inf")
Inf == 1000000

dt_process_candidate(dtb_path, lhash) ==
    LET dts == dtb_to_dts(dtb_path)
    IN  IF dts.kind = "raise" THEN dts
        ELSE IF dts.kind = "none" THEN NoneV
        ELSE Val(<<relative_to(dtb_path, DTB_PATH), hash_str(dts.v), dts.v>>)

\* the locals of detect_live's loop
Locals(md, bm, bd) == [min_diff |-> md, best_match |-> bm, best_dts |-> bd]

\* the body of `for future in as_completed(futures)` for one task result:
\* ret is the value of a `return` executed in the body, or NoneV
LoopBody_NoShortCircuit(loc, result, lhash, live) ==
    LET diff_len == Cardinality(diff_dts(result[3], live))
    IN  IF diff_len < loc.min_diff
        THEN [ret |-> NoneV, loc |-> Locals(diff_len, Val(result[1]), Val(result[3]))]
        ELSE [ret |-> NoneV, loc |-> loc]

LoopBody_KeepsLast(loc, result, lhash, live) ==
    LET diff_len == Cardinality(diff_dts(result[3], live))
    IN  IF result[2] = lhash
        THEN [ret |-> Val(<<Val(result[1]), {}>>), loc |-> loc]
        ELSE [ret |-> NoneV, loc |-> Locals(diff_len, Val(result[1]), Val(result[3]))]

LoopBody(loc, result, lhash, live) ==
    LET dtb_relpath == result[1]
        candidate_hash == result[2]
        candidate_dts == result[3]
    IN  IF candidate_hash = lhash
        THEN [ret |-> Val(<<Val(dtb_relpath), {}>>), loc |-> loc]
        ELSE LET diff_len == Cardinality(diff_dts(candidate_dts, live))
             IN  IF diff_len < loc.min_diff
                 THEN [ret |-> NoneV,
                       loc |-> Locals(diff_len, Val(dtb_relpath), Val(candidate_dts))]
                 ELSE [ret |-> NoneV, loc |-> loc]

\* truth value of an optional text: None and the empty text are false
Truthy(x) == x.kind = "value" /\ x.v # <<>>

\* the statements after the with block
AfterLoop(loc, live) ==
    IF Truthy(loc.best_dts)
    THEN <<loc.best_match, diff_dts(loc.best_dts.v, live)>>
    ELSE <<NoneV, "No match found">>

InitDetect ==
    /\ dtcInstalled \in BOOLEAN
    /\ DTB_PATH \in {None, "/boot/dtbs"}
    /\ liveOut \in DtcRuns
    /\ dtcOut \in [Cands -> DtcRuns]
    /\ dl_pc = "idle"
    /\ live_dts_str = <<>>
    /\ live_hash = hash_str(<<>>)
    /\ task = [c \in Cands |-> "unsubmitted"]
    /\ taskResult = [c \in Cands |-> NoneV]
    /\ observed = {}
    /\ min_diff = Inf
    /\ best_match = NoneV
    /\ best_dts = NoneV
    /\ dl_ret = NoneV
    /\ dl_exc = None

\* detect_live up to the submission of one task per candidate
DetectCall ==
    /\ dl_pc = "idle"
    /\ LET live == fdt_hash_from_proc
       IN  CASE live.kind = "raise" ->
                  /\ dl_pc' = "raised"
                  /\ dl_exc' = live.exc
                  /\ UNCHANGED <<live_dts_str, live_hash, task, dl_ret>>
             [] live.kind = "none" ->
                  /\ dl_pc' = "returned"
                  /\ dl_ret' = Val(<<NoneV, "Could not read live FDT">>)
                  /\ UNCHANGED <<live_dts_str, live_hash, task, dl_exc>>
             [] live.kind = "value" /\ DTB_PATH = None ->
                  /\ dl_pc' = "raised"
                  /\ dl_exc' = "AttributeError"
                  /\ live_dts_str' = live.v
                  /\ live_hash' = hash_str(live.v)
                  /\ UNCHANGED <<task, dl_ret>>
             [] OTHER ->
                  /\ dl_pc' = "loop"
                  /\ live_dts_str' = live.v
                  /\ live_hash' = hash_str(live.v)
                  /\ task' = [c \in Cands |-> "running"]
                  /\ UNCHANGED <<dl_ret, dl_exc>>
    /\ UNCHANGED <<taskResult, observed, min_diff, best_match, best_dts>>
    /\ UNCHANGED outsideDetect

\* a worker process finishes dt_process_candidate for candidate c
TaskFinish(c) ==
    /\ task[c] = "running"
    /\ task' = [task EXCEPT ![c] = "done"]
    /\ taskResult' = [taskResult EXCEPT ![c] = dt_process_candidate(CandPath(c), live_hash)]
    /\ UNCHANGED <<dl_pc, live_dts_str, live_hash, observed, min_diff, best_match,
                   best_dts, dl_ret, dl_exc>>
    /\ UNCHANGED outsideDetect

\* as_completed yields the finished future of candidate c and the loop body
\* runs on its result; a return or an exception leaves the loop for the
\* exit of the with block
LoopStep(c) ==
    /\ dl_pc = "loop"
    /\ task[c] = "done"
    /\ c \notin observed
    /\ observed' = observed \cup {c}
    /\ LET result == taskResult[c]
       IN  CASE result.kind = "raise" ->
                  /\ dl_pc' = "with_exit"
                  /\ dl_exc' = result.exc
                  /\ UNCHANGED <<min_diff, best_match, best_dts, dl_ret>>
             [] result.kind = "none" ->
                  UNCHANGED <<dl_pc, min_diff, best_match, best_dts, dl_ret, dl_exc>>
             [] OTHER ->
                  LET b == LoopBody(Locals(min_diff, best_match, best_dts),
                                    result.v, live_hash, live_dts_str)
                  IN  /\ min_diff' = b.loc.min_diff
                      /\ best_match' = b.loc.best_match
                      /\ best_dts' = b.loc.best_dts
                      /\ dl_ret' = b.ret
                      /\ dl_pc' = IF b.ret.kind = "value" THEN "with_exit" ELSE "loop"
                      /\ UNCHANGED dl_exc
    /\ UNCHANGED <<live_dts_str, live_hash, task, taskResult>>
    /\ UNCHANGED outsideDetect

\* as_completed is exhausted: every future has been yielded
LoopEnd ==
    /\ dl_pc = "loop"
    /\ observed = Cands
    /\ dl_pc' = "with_exit"
    /\ UNCHANGED <<live_dts_str, live_hash, task, taskResult, observed, min_diff,
                   best_match, best_dts, dl_ret, dl_exc>>
    /\ UNCHANGED outsideDetect

\* ProcessPoolExecutor.__exit__ is shutdown(wait=True): the block is left
\* once no task is running; then the pending return or exception takes
\* effect, or the statements after the block run
WithExit ==
    /\ dl_pc = "with_exit"
    /\ \A c \in Cands : task[c] = "done"
    /\ IF dl_exc # None
       THEN dl_pc' = "raised" /\ UNCHANGED dl_ret
       ELSE /\ dl_pc' = "returned"
            /\ dl_ret' = IF dl_ret.kind = "value" THEN dl_ret
                         ELSE Val(AfterLoop(Locals(min_diff, best_match, best_dts),
                                            live_dts_str))
    /\ UNCHANGED <<live_dts_str, live_hash, task, taskResult, observed, min_diff,
                   best_match, best_dts, dl_exc>>
    /\ UNCHANGED outsideDetect

----------------------------------------------------------------------------
(* extract_dtb_info and gencache *)

CatalogRoot == "/boot/dtbs"
PA == [dir |-> CatalogRoot, stem |-> "a", suffix |-> ".dtb"]
PB == [dir |-> CatalogRoot, stem |-> "b", suffix |-> ".dtb"]
PO == [dir |-> CatalogRoot, stem |-> "o", suffix |-> ".dtbo"]
Paths == {PA, PB, PO}

\* values of a parsed tree
Str(v) == [t |-> "str", v |-> v]
StrList(v) == [t |-> "list", elems |-> "str", v |-> v]
IntList(v) == [t |-> "list", elems |-> "int", v |-> v]

\* parsed trees: model as a string, model as a list of strings, model as a
\* list of cells, no model, and the empty tree
T1 == [model |-> Str("M1"), compatible |-> StrList(<<"c1">>)]
T2 == [model |-> StrList(<<"A", "B">>)]
T3 == [model |-> IntList(<<1, 2>>), compatible |-> StrList(<<"c1">>)]
T4 == [compatible |-> StrList(<<"c2">>)]
TEmpty == <<>>

\* a file dtc converts (rc 0) with the tree its YAML rendering parses to, a
\* file dtc rejects, and a path at which there is no file
DtbFile(tree) == [exists |-> TRUE, rc |-> 0, stdout |-> <<"d", NL>>, tree |-> tree]
BadFile == [exists |-> TRUE, rc |-> 1, stdout |-> <<>>, tree |-> TEmpty]
NoFile == [exists |-> FALSE, rc |-> 1, stdout |-> <<>>, tree |-> TEmpty]
FileKinds ==
    {DtbFile(T1), DtbFile(T2), DtbFile(T3), DtbFile(T4), DtbFile(TEmpty), BadFile, NoFile}

\* Path.rglob("*" + suffix) under root
rglob(root, suffix) == {q \in Paths : q.dir = root /\ q.suffix = suffix /\ disk[q].exists}
\* str.endswith
endswith(path_str, suffix) == path_str.suffix = suffix

\* dict.get(key, default)
Get(d, key, default) == IF key \in DOMAIN d THEN d[key] ELSE default
\* d[k] = v
Put(d, k, v) == [q \in (DOMAIN d) \cup {k} |-> IF q = k THEN v ELSE d[q]]

\* " ".join(list of strings)
RECURSIVE Join(_)
Join(words) ==
    IF Len(words) = 0 THEN ""
    ELSE IF Len(words) = 1 THEN words[1]
    ELSE words[1] \o " " \o Join(Tail(words))

\* dtb_to_yaml: the text of dtb_to_dts run through dtc again and parsed; the
\* second conversion and the parser are summarised by the file's tree
dtb_to_yaml(dtb_path) ==
    LET dts == dtb_to_dts(dtb_path)
    IN  IF dts.kind = "raise" THEN dts
        ELSE IF dts.kind = "none" \/ dts.v = <<>> THEN NoneV
        ELSE Val(FileAt(dtb_path).tree)

\* extract_dtb_info against the cache of the calling process: the returned
\* value (or exception), the cache afterwards, and whether dtc was run
extract_dtb_info_NoCacheCheck(dtb_path, cache) ==
    LET tree == dtb_to_yaml(dtb_path)
        description == Get(tree.v, "model", Str(""))
        info == [name |-> dtb_path.stem,
                 description |-> IF description.t = "list" THEN Join(description.v)
                                 ELSE description.v,
                 compatible |-> Get(tree.v, "compatible", StrList(<<>>))]
    IN  IF tree.kind = "raise" THEN [ret |-> tree, cache |-> cache, ran |-> TRUE]
        ELSE IF tree.kind = "none" \/ DOMAIN tree.v = {}
        THEN [ret |-> NoneV, cache |-> cache, ran |-> TRUE]
        ELSE IF description.t = "list" /\ description.elems # "str"
        THEN [ret |-> Raise("TypeError"), cache |-> cache, ran |-> TRUE]
        ELSE [ret |-> Val(info), cache |-> Put(cache, dtb_path, info), ran |-> TRUE]

extract_dtb_info(dtb_path, cache) ==
    IF dtb_path \in DOMAIN cache
    THEN [ret |-> Val(cache[dtb_path]), cache |-> cache, ran |-> FALSE]
    ELSE LET tree == dtb_to_yaml(dtb_path)
             description == Get(tree.v, "model", Str(""))
             info == [name |-> dtb_path.stem,
                      description |-> IF description.t = "list" THEN Join(description.v)
                                      ELSE description.v,
                      compatible |-> Get(tree.v, "compatible", StrList(<<>>))]
         IN  IF tree.kind = "raise" THEN [ret |-> tree, cache |-> cache, ran |-> TRUE]
             ELSE IF tree.kind = "none" \/ DOMAIN tree.v = {}
             THEN [ret |-> NoneV, cache |-> cache, ran |-> TRUE]
             ELSE IF description.t = "list" /\ description.elems # "str"
             THEN [ret |-> Raise("TypeError"), cache |-> cache, ran |-> TRUE]
             ELSE [ret |-> Val(info), cache |-> Put(cache, dtb_path, info), ran |-> TRUE]

\* _extract_info_wrapper, run in a worker process on that process's own copy
\* of dtcache; what the worker stores in its copy is lost
_extract_info_wrapper(path_str, kind, workerCache) ==
    LET result == extract_dtb_info(path_str, workerCache).ret
    IN  IF result.kind = "value" THEN Val(<<path_str, kind, result.v>>) ELSE result

\* the worker's copy of dtcache: the parent's at the time of the fork, or
\* the empty cache of a freshly imported module
WorkerCaches(parentCache) == {parentCache, <<>>}

\* all_files of gencache
all_files(root) ==
    {<<q, "base">> : q \in rglob(root, ".dtb")}
        \cup {<<q, "overlays">> : q \in rglob(root, ".dtbo")}

\* gencache without `if path not in dtcache`
Submitted_CachedToo(files, cache) == files

\* the (path, kind) pairs gencache submits
Submitted(files, cache) == {f \in files : f[1] \notin DOMAIN cache}

KindOf(q) == IF q.suffix = ".dtb" THEN "base" ELSE "overlays"

\* the handlers of gencache: except KeyboardInterrupt, except Exception
GenCatches_ConversionOnly(exc) == exc = "CalledProcessError"

GenCatches(exc) ==
    exc \in {"KeyboardInterrupt", "AttributeError", "FileNotFoundError", "TypeError",
             "CalledProcessError"}

\* `Also fill res from preexisting dtcache`
FillFromCache(r, cache) ==
    LET bases == {q \in DOMAIN cache : endswith(q, ".dtb")}
        overs == {q \in DOMAIN cache : endswith(q, ".dtbo")}
    IN  [base |-> [q \in (DOMAIN r.base) \cup bases |->
                      IF q \in bases THEN cache[q] ELSE r.base[q]],
         overlays |-> [q \in (DOMAIN r.overlays) \cup overs |->
                      IF q \in overs THEN cache[q] ELSE r.overlays[q]]]

EmptyRes == [base |-> <<>>, overlays |-> <<>>]

InitCache ==
    /\ dtcInstalled \in BOOLEAN
    /\ DTB_PATH \in {None, CatalogRoot}
    /\ disk \in [Paths -> FileKinds]
    /\ rewrites = 0
    /\ dtcache = <<>>
    /\ g_pc = "idle"
    /\ res = EmptyRes
    /\ futures = {}
    /\ g_task = [q \in Paths |-> "unsubmitted"]
    /\ g_result = [q \in Paths |-> NoneV]
    /\ g_observed = {}
    /\ g_exc = None
    /\ g_ret = NoneV
    /\ preCache = <<>>
    /\ lastDtc = {}
    /\ e_ret = NoneV

IdleCache ==
    /\ disk = [q \in Paths |-> BadFile]
    /\ rewrites = 0
    /\ dtcache = <<>>
    /\ g_pc = "off"
    /\ res = EmptyRes
    /\ futures = {}
    /\ g_task = [q \in Paths |-> "unsubmitted"]
    /\ g_result = [q \in Paths |-> NoneV]
    /\ g_observed = {}
    /\ g_exc = None
    /\ g_ret = NoneV
    /\ preCache = <<>>
    /\ lastDtc = {}
    /\ e_ret = NoneV

\* the locals and the return value of a finished gencache call are gone once
\* the program does something else
GenFrameGone ==
    /\ g_pc' = "idle"
    /\ res' = EmptyRes
    /\ futures' = {}
    /\ g_task' = [q \in Paths |-> "unsubmitted"]
    /\ g_result' = [q \in Paths |-> NoneV]
    /\ g_observed' = {}
    /\ g_exc' = None
    /\ g_ret' = NoneV
    /\ preCache' = <<>>

\* a file that has a cache entry is replaced on disk between two calls (the
\* content of a file without a cache entry is arbitrary from the start)
DiskChange(q, k) ==
    /\ g_pc \in {"idle", "returned", "raised"}
    /\ rewrites < MaxRewrites
    /\ q \in DOMAIN dtcache
    /\ disk[q] # k
    /\ disk' = [disk EXCEPT ![q] = k]
    /\ rewrites' = rewrites + 1
    /\ lastDtc' = {}
    /\ e_ret' = NoneV
    /\ GenFrameGone
    /\ UNCHANGED dtcache
    /\ UNCHANGED <<dtcInstalled, DTB_PATH, outsideCache>>

\* a call of extract_dtb_info(q) in the main process
ExtractCall(q) ==
    /\ g_pc \in {"idle", "returned", "raised"}
    /\ LET r == extract_dtb_info(q, dtcache)
       IN  /\ dtcache' = r.cache
           /\ e_ret' = Val([path |-> q, ret |-> r.ret])
           /\ lastDtc' = IF r.ran THEN {q} ELSE {}
    /\ GenFrameGone
    /\ UNCHANGED <<disk, rewrites>>
    /\ UNCHANGED <<dtcInstalled, DTB_PATH, outsideCache>>

\* gencache up to the submission of the tasks; DTB_PATH = None makes rglob
\* raise AttributeError, which the handlers of gencache receive
GenCall ==
    /\ g_pc \in {"idle", "returned", "raised"}
    /\ res' = EmptyRes
    /\ preCache' = dtcache
    /\ g_observed' = {}
    /\ g_result' = [q \in Paths |-> NoneV]
    /\ lastDtc' = {}
    /\ e_ret' = NoneV
    /\ IF DTB_PATH = None
       THEN /\ futures' = {}
            /\ g_task' = [q \in Paths |-> "unsubmitted"]
            /\ g_exc' = "AttributeError"
            /\ g_pc' = IF GenCatches("AttributeError") THEN "returned" ELSE "raised"
            /\ g_ret' = IF GenCatches("AttributeError") THEN Val(EmptyRes) ELSE NoneV
       ELSE /\ futures' = Submitted(all_files(DTB_PATH), dtcache)
            /\ g_task' = [q \in Paths |->
                             IF <<q, KindOf(q)>> \in futures' THEN "running"
                             ELSE "unsubmitted"]
            /\ g_exc' = None
            /\ g_pc' = "loop"
            /\ g_ret' = NoneV
    /\ UNCHANGED <<disk, rewrites, dtcache>>
    /\ UNCHANGED <<dtcInstalled, DTB_PATH, outsideCache>>

\* a worker process finishes _extract_info_wrapper for path q
GenTaskFinish(q) ==
    /\ g_task[q] = "running"
    /\ g_task' = [g_task EXCEPT ![q] = "done"]
    /\ \E wc \in WorkerCaches(preCache) :
          /\ g_result' = [g_result EXCEPT ![q] = _extract_info_wrapper(q, KindOf(q), wc)]
          /\ lastDtc' = IF extract_dtb_info(q, wc).ran THEN {q} ELSE {}
    /\ e_ret' = NoneV
    /\ UNCHANGED <<disk, rewrites, dtcache, g_pc, res, futures, g_observed, g_exc, g_ret,
                   preCache>>
    /\ UNCHANGED <<dtcInstalled, DTB_PATH, outsideCache>>

\* as_completed yields the finished future of path q: future.result()
\* re-raises what the task raised, else the loop body stores the result
GenLoopStep(q) ==
    /\ g_pc = "loop"
    /\ g_task[q] = "done"
    /\ q \notin g_observed
    /\ g_observed' = g_observed \cup {q}
    /\ LET result == g_result[q]
       IN  CASE result.kind = "raise" ->
                  /\ g_exc' = result.exc
                  /\ g_pc' = "with_exit"
                  /\ UNCHANGED <<dtcache, res>>
             [] result.kind = "none" ->
                  UNCHANGED <<g_exc, g_pc, dtcache, res>>
             [] OTHER ->
                  LET path_str == result.v[1]
                      kind == result.v[2]
                      data == result.v[3]
                  IN  /\ dtcache' = Put(dtcache, path_str, data)
                      /\ res' = [res EXCEPT ![kind] = Put(res[kind], path_str, data)]
                      /\ UNCHANGED <<g_exc, g_pc>>
    /\ lastDtc' = {}
    /\ e_ret' = NoneV
    /\ UNCHANGED <<disk, rewrites, futures, g_task, g_result, g_ret, preCache>>
    /\ UNCHANGED <<dtcInstalled, DTB_PATH, outsideCache>>

\* as_completed is exhausted
GenLoopEnd ==
    /\ g_pc = "loop"
    /\ g_observed = {f[1] : f \in futures}
    /\ g_pc' = "with_exit"
    /\ lastDtc' = {}
    /\ e_ret' = NoneV
    /\ UNCHANGED <<disk, rewrites, dtcache, res, futures, g_task, g_result, g_observed,
                   g_exc, g_ret, preCache>>
    /\ UNCHANGED <<dtcInstalled, DTB_PATH, outsideCache>>

\* the with block is left once no task is running (shutdown(wait=True)); a
\* pending exception goes to the handlers, which skip the fill from dtcache
GenWithExit ==
    /\ g_pc = "with_exit"
    /\ \A q \in Paths : g_task[q] # "running"
    /\ IF g_exc = None
       THEN /\ res' = FillFromCache(res, dtcache)
            /\ g_ret' = Val(res')
            /\ g_pc' = "returned"
       ELSE /\ res' = res
            /\ g_ret' = IF GenCatches(g_exc) THEN Val(res) ELSE NoneV
            /\ g_pc' = IF GenCatches(g_exc) THEN "returned" ELSE "raised"
    /\ lastDtc' = {}
    /\ e_ret' = NoneV
    /\ UNCHANGED <<disk, rewrites, dtcache, futures, g_task, g_result, g_observed, g_exc,
                   preCache>>
    /\ UNCHANGED <<dtcInstalled, DTB_PATH, outsideCache>>

NextCache ==
    \/ \E q \in Paths, k \in FileKinds : DiskChange(q, k)
    \/ \E q \in Paths : ExtractCall(q)
    \/ GenCall
    \/ \E q \in Paths : GenTaskFinish(q)
    \/ \E q \in Paths : GenLoopStep(q)
    \/ GenLoopEnd
    \/ GenWithExit

----------------------------------------------------------------------------
(* The catalog root: the module-level loop over `candidates` *)

candidates == <<"/usr/lib/modules/*/dtbs", "/usr/lib/modules/*/dtb", "/boot/dtbs">>

\* the kernel versions a * can stand for, in sorted order
Versions == 1..NumVersions

\* the paths a pattern can match, in the order of sorted()
Expand(pattern) ==
    IF pattern = "/boot/dtbs" THEN <<"/boot/dtbs">>
    ELSE [v \in Versions |->
             "/usr/lib/modules/" \o ToString(v)
                 \o (IF pattern = "/usr/lib/modules/*/dtbs" THEN "/dtbs" ELSE "/dtb")]

RootPaths == UNION {ToSet(Expand(candidates[i])) : i \in 1..Len(candidates)}

\* at a path there is nothing, a regular file or a directory
EntryKinds == {"absent", "file", "dir"}

\* sorted(glob(pattern)): the existing paths the pattern matches
glob(pattern) == SelectSeq(Expand(pattern), LAMBDA p : fsys[p] # "absent")
\* os.path.isdir
isdir(path) == fsys[path] = "dir"

\* `for path in matches: if os.path.isdir(path): DTB_PATH = Path(path)`
RECURSIVE ForPathInMatches(_, _)
ForPathInMatches(matches, root) ==
    IF matches = <<>> THEN root
    ELSE ForPathInMatches(Tail(matches),
                          IF isdir(Head(matches)) THEN Head(matches) ELSE root)

InitRoot ==
    /\ DTB_PATH = None
    /\ fsys \in [RootPaths -> EntryKinds]
    /\ pattern_i = 1

IdleRoot ==
    /\ fsys = [p \in RootPaths |-> "absent"]
    /\ pattern_i = 0

\* one iteration of `for pattern in candidates`
ForPattern ==
    /\ pattern_i \in 1..Len(candidates)
    /\ DTB_PATH' = ForPathInMatches(glob(candidates[pattern_i]), DTB_PATH)
    /\ pattern_i' = pattern_i + 1
    /\ UNCHANGED fsys
    /\ UNCHANGED <<dtcInstalled, liveOut, dtcOut, diffVars, detectVars, cacheVars, kvVars,
                   extVars, scalarVars, yamlVars, overlayVars>>

----------------------------------------------------------------------------
(* Strings and Python values *)

\* the whitespace characters the texts of the model hold
Whitespace == {" ", NL}

\* the concatenation of a sequence of sequences
RECURSIVE Concat(_)
Concat(seqs) == IF seqs = <<>> THEN <<>> ELSE Head(seqs) \o Concat(Tail(seqs))

\* str.lstrip(chars), str.rstrip(chars), str.strip(chars)
RECURSIVE lstrip(_, _)
lstrip(s, chars) == IF s # <<>> /\ Head(s) \in chars THEN lstrip(Tail(s), chars) ELSE s
RECURSIVE rstrip(_, _)
rstrip(s, chars) ==
    IF s # <<>> /\ s[Len(s)] \in chars THEN rstrip(SubSeq(s, 1, Len(s) - 1), chars) ELSE s
strip(s, chars) == rstrip(lstrip(s, chars), chars)

\* str.find(c) + 1: the index of the first c in s, 0 if there is none
Find(s, c) ==
    IF \E i \in 1..Len(s) : s[i] = c
    THEN CHOOSE i \in 1..Len(s) : s[i] = c /\ \A j \in 1..(i - 1) : s[j] # c
    ELSE 0

\* str.startswith(prefix)
startswith(s, prefix) == Len(s) >= Len(prefix) /\ SubSeq(s, 1, Len(prefix)) = prefix

\* sep.join(words)
RECURSIVE join(_, _)
join(sep, words) ==
    IF words = <<>> THEN <<>>
    ELSE IF Len(words) = 1 THEN words[1]
    ELSE words[1] \o sep \o join(sep, Tail(words))

\* str.replace(c, by) for a one-character c
RECURSIVE replace(_, _, _)
replace(s, c, by) ==
    IF s = <<>> THEN <<>>
    ELSE (IF Head(s) = c THEN by ELSE <<Head(s)>>) \o replace(Tail(s), c, by)

DecimalDigits == <<"0", "1", "2", "3", "4", "5", "6", "7", "8", "9">>
DigitValue(c) == (CHOOSE d \in 1..10 : DecimalDigits[d] = c) - 1

\* str.isdigit()
isdigit(s) == s # <<>> /\ \A i \in 1..Len(s) : s[i] \in ToSet(DecimalDigits)

\* int(s) for a string of decimal digits
RECURSIVE int(_)
int(s) ==
    IF s = <<>> THEN 0
    ELSE 10 * int(SubSeq(s, 1, Len(s) - 1)) + DigitValue(s[Len(s)])

\* str(n) for n >= 0
RECURSIVE str(_)
str(n) ==
    IF n < 10 THEN <<DecimalDigits[n + 1]>>
    ELSE str(n \div 10) \o <<DecimalDigits[(n % 10) + 1]>>

\* Python values: a str, an int, a list of values
PyStr(s) == [str |-> s]
PyInt(n) == [int |-> n]
PyList(l) == [list |-> l]
IsStr(v) == "str" \in DOMAIN v
IsInt(v) == "int" \in DOMAIN v
IsList(v) == "list" \in DOMAIN v

\* a dict in insertion order is a sequence of <<key, value>> pairs;
\* d[key] = val replaces the value of a key in place or appends the key
SetItem(d, key, val) ==
    IF \E i \in 1..Len(d) : d[i][1] = key
    THEN [i \in 1..Len(d) |-> IF d[i][1] = key THEN <<key, val>> ELSE d[i]]
    ELSE Append(d, <<key, val>>)

----------------------------------------------------------------------------
(* parse_uboot, encode_uboot, parse_grub, encode_grub *)

ShellQuotes == {"'", "\""}

\* shlex.split(s, posix=True): between tokens (" "), in a word ("a") or in a
\* quotation; an unclosed quotation raises ValueError.  The texts of the
\* model hold no backslash
RECURSIVE shlex_read(_, _, _, _, _)
shlex_read(s, i, state, token, acc) ==
    IF i > Len(s)
    THEN IF state \in ShellQuotes THEN Raise("ValueError")
         ELSE IF state = "a" THEN Val(Append(acc, token)) ELSE Val(acc)
    ELSE LET c == s[i]
         IN  CASE state = " " ->
                    IF c \in Whitespace THEN shlex_read(s, i + 1, " ", <<>>, acc)
                    ELSE IF c \in ShellQuotes THEN shlex_read(s, i + 1, c, <<>>, acc)
                    ELSE shlex_read(s, i + 1, "a", <<c>>, acc)
               [] state = "a" ->
                    IF c \in Whitespace
                    THEN shlex_read(s, i + 1, " ", <<>>, Append(acc, token))
                    ELSE IF c \in ShellQuotes THEN shlex_read(s, i + 1, c, token, acc)
                    ELSE shlex_read(s, i + 1, "a", Append(token, c), acc)
               [] OTHER ->
                    IF c = state THEN shlex_read(s, i + 1, "a", token, acc)
                    ELSE shlex_read(s, i + 1, state, Append(token, c), acc)

shlex_split(s) == shlex_read(s, 1, " ", <<>>, <<>>)

\* `if x.isdigit(): x = int(x)`
Coerce(token) == IF isdigit(token) THEN PyInt(int(token)) ELSE PyStr(token)

\* the value stored for the text after the first "=" of a line
StoredValue_ScalarCoercionOnly(val) ==
    LET tokens == shlex_split(val)
    IN  IF tokens.kind = "raise" THEN PyStr(strip(val, Whitespace))
        ELSE IF Len(tokens.v) = 1 THEN Coerce(tokens.v[1])
        ELSE PyList([i \in 1..Len(tokens.v) |-> PyStr(tokens.v[i])])

StoredValue(val) ==
    LET tokens == shlex_split(val)
    IN  IF tokens.kind = "raise" THEN PyStr(strip(val, Whitespace))
        ELSE IF Len(tokens.v) = 1 THEN Coerce(tokens.v[1])
        ELSE PyList([i \in 1..Len(tokens.v) |-> Coerce(tokens.v[i])])

\* `for line in f` of parse_uboot and parse_grub
RECURSIVE ForLineInFile(_, _)
ForLineInFile(lines, config) ==
    IF lines = <<>> THEN config
    ELSE LET line == strip(Head(lines), Whitespace)
             eq == Find(line, "=")
             key == strip(SubSeq(line, 1, eq - 1), Whitespace)
             val == SubSeq(line, eq + 1, Len(line))
         IN  IF line = <<>> \/ Head(line) = "#" \/ eq = 0
             THEN ForLineInFile(Tail(lines), config)
             ELSE ForLineInFile(Tail(lines), SetItem(config, key, StoredValue(val)))

NoSuchFile == [exists |-> FALSE, text |-> <<>>]
TextFile(text) == [exists |-> TRUE, text |-> text]

UBootDefaults ==
    <<
      <<<<"U", "_", "B", "O", "O", "T", "_", "I", "S", "_", "S", "E", "T", "U", "P">>,
        PyStr(<<"f", "a", "l", "s", "e">>)>>,
      <<<<"U", "_", "B", "O", "O", "T", "_", "P", "A", "R", "A", "M", "E", "T", "E", "R", "S">>,
        PyStr(<<"s", "p", "l", "a", "s", "h", " ", "q", "u", "i", "e", "t">>)>>
    >>

\* open() raises FileNotFoundError, which parse_uboot swallows
parse_uboot(file) ==
    IF file.exists THEN Val(ForLineInFile(splitlines(file.text), UBootDefaults))
    ELSE Val(UBootDefaults)

parse_grub(file) ==
    IF file.exists THEN Val(ForLineInFile(splitlines(file.text), <<>>))
    ELSE Raise("FileNotFoundError")

force_quote(val) ==
    IF IsInt(val) THEN str(val.int)
    ELSE <<"'">> \o replace(val.str, "'", <<"'", "\"", "'", "\"", "'">>) \o <<"'">>

\* the line appended for one item of the config: " ".join raises TypeError
\* on a list element that is no str
EncodeItem(key, val) ==
    IF IsList(val) /\ \E i \in 1..Len(val.list) : ~IsStr(val.list[i])
    THEN Raise("TypeError")
    ELSE LET val_str == IF IsList(val)
                        THEN PyStr(join(<<" ">>, [i \in 1..Len(val.list) |-> val.list[i].str]))
                        ELSE val
         IN  Val(key \o <<"=">> \o force_quote(val_str))

\* the body shared by encode_uboot and encode_grub
Encode(header, config) ==
    LET lines == [i \in 1..Len(config) |-> EncodeItem(config[i][1], config[i][2])]
    IN  IF \E i \in 1..Len(lines) : lines[i].kind = "raise"
        THEN Raise("TypeError")
        ELSE Val(join(<<NL>>, <<header>> \o [i \in 1..Len(lines) |-> lines[i].v]))

encode_uboot(config) ==
    Encode(<<"#", "#", " ", "/", "e", "t", "c", "/", "d", "e", "f", "a", "u", "l", "t", "/", "u", "-",
           "b", "o", "o", "t", " ", "-", " ", "c", "o", "n", "f", "i", "g", "u", "r", "a", "t", "i", "o", "n",
           " ", "f", "i", "l", "e">>,
           config)

encode_grub(config) ==
    Encode(<<"#", "#", " ", "/", "e", "t", "c", "/", "d", "e", "f", "a", "u", "l", "t", "/", 
           "g", "r", "u", "b", " ", "-", " ", "c", "o", "n", "f", "i", "g", "u", "r", "a", "t", "i", "o", "n",
           " ", "f", "i", "l", "e">>,
           config)

\* the codec under test
Parse(codec, file) == IF codec = "uboot" THEN parse_uboot(file) ELSE parse_grub(file)
EncodeConfig(codec, config) ==
    IF codec = "uboot" THEN encode_uboot(config) ELSE encode_grub(config)

\* characters of the generated value, and the lines that may precede the
\* generated line: a comment, an earlier value of the same key, a key with
\* blanks around it, a value holding "=", a line without "=", a blank line
KvChars == {"a", "0", "1", " ", "'", "\""}
KvValues == SeqsUpTo(KvChars, MaxValLen)
FirstLines ==
    {<<>>,
     <<"#", " ", "c", NL>>,
     <<"K", "=", "a", NL>>,
     <<" ", "L", " ", "=", " ", "1", " ", "a", NL>>,
     <<"L", "=", "a", "=", "1", NL>>,
     <<"j", "u", "n", "k", NL>>,
     <<NL>>}
KvFiles ==
    {NoSuchFile} \cup {TextFile(f \o <<"K", "=">> \o v) : f \in FirstLines, v \in KvValues}

InitKV ==
    /\ kv_codec \in {"uboot", "grub"}
    /\ kv_file \in KvFiles
    /\ kv_pc = "parse"
    /\ kv_config = NoneV
    /\ kv_text = NoneV
    /\ kv_again = NoneV

IdleKV ==
    /\ kv_codec = "grub"
    /\ kv_file = NoSuchFile
    /\ kv_pc = "off"
    /\ kv_config = NoneV
    /\ kv_text = NoneV
    /\ kv_again = NoneV

outsideKV ==
    <<diffVars, detectEnv, detectVars, cacheVars, rootVars, extVars, scalarVars, yamlVars,
      overlayVars>>

\* config = parse_uboot() or parse_grub()
ParseCall ==
    /\ kv_pc = "parse"
    /\ kv_config' = Parse(kv_codec, kv_file)
    /\ kv_pc' = IF kv_config'.kind = "raise" THEN "raised" ELSE "encode"
    /\ UNCHANGED <<kv_codec, kv_file, kv_text, kv_again>>
    /\ UNCHANGED outsideKV

\* text = encode_uboot(config) or encode_grub(config)
EncodeCall ==
    /\ kv_pc = "encode"
    /\ kv_text' = EncodeConfig(kv_codec, kv_config.v)
    /\ kv_pc' = IF kv_text'.kind = "raise" THEN "raised" ELSE "write"
    /\ UNCHANGED <<kv_codec, kv_file, kv_config, kv_again>>
    /\ UNCHANGED outsideKV

\* the caller writes the text back to the file the parser reads
WriteBack ==
    /\ kv_pc = "write"
    /\ kv_file' = TextFile(kv_text.v)
    /\ kv_pc' = "reparse"
    /\ UNCHANGED <<kv_codec, kv_config, kv_text, kv_again>>
    /\ UNCHANGED outsideKV

\* the parser is called again
ParseAgain ==
    /\ kv_pc = "reparse"
    /\ kv_again' = Parse(kv_codec, kv_file)
    /\ kv_pc' = "done"
    /\ UNCHANGED <<kv_codec, kv_file, kv_config, kv_text>>
    /\ UNCHANGED outsideKV

----------------------------------------------------------------------------
(* parse_extlinux_conf and serialize_extlinux_conf *)

LowerCase == <<"a", "b", "c", "d", "e", "f", "g", "h", "i", "j", "k", "l", "m",
               "n", "o", "p", "q", "r", "s", "t", "u", "v", "w", "x", "y", "z">>
UpperCase == <<"A", "B", "C", "D", "E", "F", "G", "H", "I", "J", "K", "L", "M",
               "N", "O", "P", "Q", "R", "S", "T", "U", "V", "W", "X", "Y", "Z">>

\* str.lower(), str.upper()
MapCase(s, from, to) ==
    [i \in 1..Len(s) |->
        IF \E k \in 1..26 : from[k] = s[i] THEN to[CHOOSE k \in 1..26 : from[k] = s[i]]
        ELSE s[i]]
lower(s) == MapCase(s, UpperCase, LowerCase)
upper(s) == MapCase(s, LowerCase, UpperCase)

\* the index of the first whitespace character of s, 0 if there is none
FirstBlank(s) ==
    IF \E i \in 1..Len(s) : s[i] \in Whitespace
    THEN CHOOSE i \in 1..Len(s) :
             s[i] \in Whitespace /\ \A j \in 1..(i - 1) : s[j] \notin Whitespace
    ELSE 0

\* str.split(None, 1) of a stripped, non-empty line
split1(line) ==
    IF FirstBlank(line) = 0 THEN <<line>>
    ELSE <<SubSeq(line, 1, FirstBlank(line) - 1),
           lstrip(SubSeq(line, FirstBlank(line), Len(line)), Whitespace)>>

\* str.split()
RECURSIVE split(_)
split(s) ==
    LET rest == lstrip(s, Whitespace)
    IN  IF rest = <<>> THEN <<>>
        ELSE IF FirstBlank(rest) = 0 THEN <<rest>>
        ELSE <<SubSeq(rest, 1, FirstBlank(rest) - 1)>>
                 \o split(SubSeq(rest, FirstBlank(rest), Len(rest)))

\* truth value of current_label
HasLabel(label) == label # NoneV /\ label.str # <<>>

\* d[key] of a dict in insertion order
GetItem(d, key) == d[CHOOSE i \in 1..Len(d) : d[i][1] = key][2]

\* the directive key: value stored in the section of label; a label that is
\* false stands for the global section
StoreGlobally(config, label, key, value) ==
    [config EXCEPT !.global = SetItem(config.global, key, value)]

Store(config, label, key, value) ==
    IF HasLabel(label)
    THEN [config EXCEPT !.labels =
             SetItem(config.labels, label.str,
                     SetItem(GetItem(config.labels, label.str), key, value))]
    ELSE [config EXCEPT !.global = SetItem(config.global, key, value)]

\* the body of `for raw_line in lines` on the locals config, current_label
ForRawLine(loc, raw_line) ==
    LET line == strip(raw_line, Whitespace)
        key_value == split1(line)
        key == lower(key_value[1])
        value == strip(key_value[2], Whitespace)
    IN  IF line = <<>> \/ Head(line) = "#" THEN loc
        ELSE IF startswith(lower(line), <<"l", "a", "b", "e", "l", " ">>)
        THEN LET name == strip(SubSeq(line, 7, Len(line)), Whitespace)
             IN  [config |-> [loc.config EXCEPT
                                 !.labels = SetItem(loc.config.labels, name, <<>>)],
                  current_label |-> PyStr(name)]
        ELSE IF Len(key_value) = 2
        THEN [loc EXCEPT !.config =
                 Store(loc.config, loc.current_label, key,
                       IF key = <<"f", "d", "t", "o", "v", "e", "r", "l", "a", "y", "s">>
                       THEN PyList([i \in 1..Len(split(value)) |-> PyStr(split(value)[i])])
                       ELSE PyStr(value))]
        ELSE [loc EXCEPT !.config = Store(loc.config, loc.current_label, key, NoneV)]

EmptyConfig == [global |-> <<>>, labels |-> <<>>]

RECURSIVE ForRawLines(_, _)
ForRawLines(loc, lines) ==
    IF lines = <<>> THEN loc
    ELSE ForRawLines(ForRawLine(loc, Head(lines)), Tail(lines))

parse_extlinux_conf(source) ==
    ForRawLines([config |-> EmptyConfig, current_label |-> NoneV], splitlines(source)).config

\* repr() of a list of strings that hold no quote and no backslash
repr(list) ==
    <<"[">> \o join(<<",", " ">>, [i \in 1..Len(list) |-> <<"'">> \o list[i].str \o <<"'">>])
            \o <<"]">>

\* f"{value}"
Format(value) == IF IsList(value) THEN repr(value.list) ELSE value.str

\* the line of a directive of the global section
GlobalLine(key, value) ==
    IF value = NoneV THEN upper(key)
    ELSE upper(key) \o <<" ">> \o Format(value)

\* the line of a directive under a label
LabelLine(key, value) ==
    IF value = NoneV THEN <<" ", " ", " ", " ">> \o upper(key)
    ELSE IF key = <<"f", "d", "t", "o", "v", "e", "r", "l", "a", "y", "s">> /\ IsList(value)
    THEN <<" ", " ", " ", " ">> \o upper(key) \o <<" ">>
             \o join(<<" ">>, [i \in 1..Len(value.list) |-> value.list[i].str])
    ELSE <<" ", " ", " ", " ">> \o upper(key) \o <<" ">> \o Format(value)

\* the lines appended for the labels from the n-th on
RECURSIVE LabelLines(_, _)
LabelLines(labels, n) ==
    IF n > Len(labels) THEN <<>>
    ELSE LET directives == labels[n][2]
         IN  <<<<"L", "A", "B", "E", "L", " ">> \o labels[n][1]>>
                 \o [i \in 1..Len(directives) |-> LabelLine(directives[i][1], directives[i][2])]
                 \o << <<>> >>
                 \o LabelLines(labels, n + 1)

serialize_extlinux_conf(config) ==
    LET globals == [i \in 1..Len(config.global) |->
                       GlobalLine(config.global[i][1], config.global[i][2])]
        lines == globals \o (IF globals # <<>> THEN << <<>> >> ELSE <<>>)
                     \o LabelLines(config.labels, 1)
    IN  rstrip(join(<<NL>>, lines), Whitespace)

\* the lines a text is made of: two LABEL lines, the overlay list, a
\* directive with a value, one without, a comment, a blank line
ExtLineKinds ==
    {<<"l", "a", "b", "e", "l", " ", "x">>,
     <<"L", "A", "B", "E", "L", " ", " ", "y">>,
     <<"f", "d", "t", "o", "v", "e", "r", "l", "a", "y", "s", " ", "a", " ", "b">>,
     <<" ", " ", "K", "e", "r", "n", "e", "l", " ", "k", " ", " ", "v">>,
     <<"m", "e", "n", "u">>,
     <<"#", " ", "c">>,
     <<"t", "i", "m", "e", "o", "u", "t", " ", "1">>,
     <<>>}
ExtSources == {join(<<NL>>, lines) : lines \in SeqsUpTo(ExtLineKinds, MaxExtLines)}

InitExt ==
    /\ x_source \in ExtSources
    /\ x_i = 1
    /\ current_label = NoneV
    /\ x_config = EmptyConfig
    /\ x_pc = "parse"
    /\ x_text = NoneV
    /\ x_again = NoneV

IdleExt ==
    /\ x_source = <<>>
    /\ x_i = 1
    /\ current_label = NoneV
    /\ x_config = EmptyConfig
    /\ x_pc = "off"
    /\ x_text = NoneV
    /\ x_again = NoneV

outsideExt ==
    <<diffVars, detectEnv, detectVars, cacheVars, rootVars, kvVars, scalarVars, yamlVars,
      overlayVars>>

\* one iteration of `for raw_line in lines`
ParseLine ==
    /\ x_pc = "parse"
    /\ x_i <= Len(splitlines(x_source))
    /\ LET loc == ForRawLine([config |-> x_config, current_label |-> current_label],
                             splitlines(x_source)[x_i])
       IN  x_config' = loc.config /\ current_label' = loc.current_label
    /\ x_i' = x_i + 1
    /\ UNCHANGED <<x_source, x_pc, x_text, x_again>>
    /\ UNCHANGED outsideExt

\* `return config`
ParseReturn ==
    /\ x_pc = "parse"
    /\ x_i > Len(splitlines(x_source))
    /\ x_pc' = "serialize"
    /\ UNCHANGED <<x_source, x_i, current_label, x_config, x_text, x_again>>
    /\ UNCHANGED outsideExt

\* text = serialize_extlinux_conf(config)
SerializeCall ==
    /\ x_pc = "serialize"
    /\ x_text' = Val(serialize_extlinux_conf(x_config))
    /\ x_pc' = "reparse"
    /\ UNCHANGED <<x_source, x_i, current_label, x_config, x_again>>
    /\ UNCHANGED outsideExt

\* parse_extlinux_conf(text)
ParseSerialized ==
    /\ x_pc = "reparse"
    /\ x_again' = Val(parse_extlinux_conf(x_text.v))
    /\ x_pc' = "done"
    /\ UNCHANGED <<x_source, x_i, current_label, x_config, x_text>>
    /\ UNCHANGED outsideExt

----------------------------------------------------------------------------
(* _parse_scalar *)

PyBool(b) == [bool |-> b]
\* a float is written as the pair of its decimal digits and the number of
\* them after the point, without trailing zeros: 3.5 is <<35, 1>>
PyFloat(digits, scale) == [float |-> <<digits, scale>>]

endswith_(s, suffix) ==
    Len(s) >= Len(suffix) /\ SubSeq(s, Len(s) - Len(suffix) + 1, Len(s)) = suffix

\* float(val) for a val that holds a decimal point: digits around one point;
\* the texts of the model hold no sign, exponent, underscore, inf or nan
float(val) ==
    LET dot == Find(val, ".")
        whole == SubSeq(val, 1, dot - 1)
        frac == SubSeq(val, dot + 1, Len(val))
        kept == rstrip(frac, {"0"})
    IN  IF /\ (whole = <<>> \/ isdigit(whole))
           /\ (frac = <<>> \/ isdigit(frac))
           /\ whole \o frac # <<>>
        THEN Val(PyFloat(int(whole \o kept), Len(kept)))
        ELSE Raise("ValueError")

Digits36 == DecimalDigits \o <<"a", "b", "c", "d", "e", "f">>
\* the radix a prefix 0x, 0o or 0b announces, 0 for no prefix
RadixOf(val) ==
    IF Len(val) >= 2 /\ val[1] = "0"
    THEN CASE lower(val)[2] = "x" -> 16
           [] lower(val)[2] = "o" -> 8
           [] lower(val)[2] = "b" -> 2
           [] OTHER -> 0
    ELSE 0
IsNumeral(s, radix) ==
    s # <<>> /\ \A i \in 1..Len(s) : \E d \in 1..radix : Digits36[d] = lower(s)[i]
RECURSIVE NumeralValue(_, _)
NumeralValue(s, radix) ==
    IF s = <<>> THEN 0
    ELSE radix * NumeralValue(SubSeq(s, 1, Len(s) - 1), radix)
             + (CHOOSE d \in 1..radix : Digits36[d] = lower(s)[Len(s)]) - 1

\* int(val, 10)
int_Base10(val) ==
    IF IsNumeral(val, 10) THEN Val(PyInt(NumeralValue(val, 10))) ELSE Raise("ValueError")

\* int(val, 0): the radix is read from the prefix; a decimal numeral other
\* than zero has no leading zero.  The texts of the model hold no sign and
\* no underscore
int_(val) ==
    IF RadixOf(val) # 0
    THEN IF IsNumeral(SubSeq(val, 3, Len(val)), RadixOf(val))
         THEN Val(PyInt(NumeralValue(SubSeq(val, 3, Len(val)), RadixOf(val))))
         ELSE Raise("ValueError")
    ELSE IF IsNumeral(val, 10) /\ (val[1] # "0" \/ \A i \in 1..Len(val) : val[i] = "0")
    THEN Val(PyInt(NumeralValue(val, 10)))
    ELSE Raise("ValueError")

\* re.finditer(r'"([^"]*)"|([^,\s\]]+)', s) from position p on: the group
\* that matched, for every match
RECURSIVE finditer(_, _)
finditer(s, p) ==
    LET stop == {",", "]"} \cup Whitespace
        closing == {q \in (p + 1)..Len(s) : s[q] = "\""}
        close == CHOOSE q \in closing : \A r \in closing : q <= r
        after == {q \in p..Len(s) : s[q] \in stop}
        end == IF after = {} THEN Len(s) + 1
               ELSE CHOOSE q \in after : \A r \in after : q <= r
    IN  IF p > Len(s) THEN <<>>
        ELSE IF s[p] = "\"" /\ closing # {}
        THEN <<SubSeq(s, p + 1, close - 1)>> \o finditer(s, close + 1)
        ELSE IF s[p] \in stop THEN finditer(s, p + 1)
        ELSE <<SubSeq(s, p, end - 1)>> \o finditer(s, end)

RECURSIVE _parse_scalar(_)
_parse_scalar(v) ==
    LET val == strip(v, Whitespace)
        inner == strip(IF endswith_(Tail(val), <<"]">>)
                       THEN SubSeq(val, 2, Len(val) - 1) ELSE Tail(val),
                       Whitespace)
        items == finditer(rstrip(inner, {",", ";"}), 1)
        number == IF Find(val, ".") > 0 THEN float(val) ELSE int_(val)
    IN  IF startswith(val, <<"\"">>) /\ endswith_(val, <<"\"">>)
        THEN PyStr(SubSeq(val, 2, Len(val) - 1))
        ELSE IF lower(val) \in {<<"t", "r", "u", "e">>, <<"f", "a", "l", "s", "e">>}
        THEN PyBool(lower(val) = <<"t", "r", "u", "e">>)
        ELSE IF startswith(val, <<"[">>)
        THEN PyList([i \in 1..Len(items) |->
                        _parse_scalar(rstrip(strip(items[i], Whitespace), {","}))])
        ELSE IF number.kind = "value" THEN number.v
        ELSE PyStr(val)

\* the pieces a value text is made of
ScalarPieces ==
    {<<"\"">>, <<"[">>, <<"]">>, <<",">>, <<" ">>, <<".">>, <<"0">>, <<"1">>, <<"a">>,
     <<"b">>, <<"0", "x", "1", "0">>, <<"3", ".", "5">>,
     <<"t", "r", "u", "e">>, <<"F", "a", "l", "s", "e">>,
     <<"h", "e", "l", "l", "o">>,
     <<"\"", "t", "r", "u", "e", "\"">>, <<"\"", "0", "x", "1", "0", "\"">>,
     <<"\"", "[", "x", "\"">>}
ScalarTexts == {Concat(pieces) : pieces \in SeqsUpTo(ScalarPieces, MaxPieces)}

InitScalar ==
    /\ ps_val \in ScalarTexts
    /\ ps_out = NoneV
    /\ ps_pc = "call"

IdleScalar ==
    /\ ps_val = <<>>
    /\ ps_out = NoneV
    /\ ps_pc = "off"

ScalarCall ==
    /\ ps_pc = "call"
    /\ ps_out' = Val(_parse_scalar(ps_val))
    /\ ps_pc' = "done"
    /\ UNCHANGED ps_val
    /\ UNCHANGED <<diffVars, detectEnv, detectVars, cacheVars, rootVars, kvVars, extVars,
                   yamlVars, overlayVars>>

----------------------------------------------------------------------------
(* parse_dtc_yaml and _flatten *)

PyDict(d) == [dict |-> d]
IsDict(v) == "dict" \in DOMAIN v
HasKey(d, key) == \E i \in 1..Len(d) : d[i][1] = key

_no_brackets(key) ==
    IF \/ startswith(key, <<"\"">>) /\ endswith_(key, <<"\"">>)
       \/ startswith(key, <<"'">>) /\ endswith_(key, <<"'">>)
    THEN SubSeq(key, 2, Len(key) - 1)
    ELSE key

\* _flatten collapsing only at the top of each value, without flattening the
\* elements of a list first
RECURSIVE _flatten_ElementsAsTheyAre(_)
_flatten_ElementsAsTheyAre(obj) ==
    IF IsDict(obj)
    THEN PyDict([i \in 1..Len(obj.dict) |->
                    <<obj.dict[i][1], _flatten_ElementsAsTheyAre(obj.dict[i][2])>>])
    ELSE IF IsList(obj)
    THEN IF Len(obj.list) = 1 /\ IsList(obj.list[1]) THEN obj.list[1] ELSE obj
    ELSE obj

RECURSIVE _flatten(_)
_flatten(obj) ==
    IF IsDict(obj)
    THEN PyDict([i \in 1..Len(obj.dict) |-> <<obj.dict[i][1], _flatten(obj.dict[i][2])>>])
    ELSE IF IsList(obj)
    THEN LET lst == [i \in 1..Len(obj.list) |-> _flatten(obj.list[i])]
         IN  IF Len(lst) = 1 /\ IsList(lst[1]) THEN lst[1] ELSE PyList(lst)
    ELSE obj

\* the mapping a path of keys leads to from the mapping d, and d with that
\* mapping replaced: a frame of the stack refers to its mapping by its path
RECURSIVE GetAt(_, _)
GetAt(d, path) ==
    IF path = <<>> THEN d ELSE GetAt(GetItem(d, Head(path)).dict, Tail(path))
RECURSIVE SetAt(_, _, _)
SetAt(d, path, new) ==
    IF path = <<>> THEN new
    ELSE SetItem(d, Head(path),
                 PyDict(SetAt(GetItem(d, Head(path)).dict, Tail(path), new)))

Frame(path, indent, last_key) == [path |-> path, indent |-> indent, last_key |-> last_key]

\* `while indent < indents[-1]: stack.pop(); indents.pop(); last_keys.pop()`
RECURSIVE PopTo(_, _)
PopTo(frames, indent) ==
    IF indent < frames[Len(frames)].indent
    THEN PopTo(SubSeq(frames, 1, Len(frames) - 1), indent)
    ELSE frames

\* container.setdefault(key, []).append(val): appending to a value that is
\* no list raises AttributeError
SetDefaultAppend(container, key, val) ==
    IF ~HasKey(container, key) THEN Val(SetItem(container, key, PyList(<<val>>)))
    ELSE IF IsList(GetItem(container, key))
    THEN Val(SetItem(container, key, PyList(Append(GetItem(container, key).list, val))))
    ELSE Raise("AttributeError")

\* the plain list item: a value under last_key that is no list is wrapped
\* into a list first
AppendUnderLastKey(container, lk, val) ==
    IF ~HasKey(container, lk) THEN SetItem(container, lk, PyList(<<val>>))
    ELSE IF IsList(GetItem(container, lk))
    THEN SetItem(container, lk, PyList(Append(GetItem(container, lk).list, val)))
    ELSE SetItem(container, lk, PyList(<<GetItem(container, lk), val>>))

\* the body of `for line in data.splitlines()` on the locals root and stack;
\* exc is the exception the body raises, or None
ForLine(loc, line) ==
    LET raw == rstrip(rstrip(line, Whitespace), {";"})
        stripped == lstrip(raw, Whitespace)
        indent == Len(line) - Len(stripped)
        frames == PopTo(loc.stack, indent)
        top == frames[Len(frames)]
        container == GetAt(loc.root, top.path)
        Updated(c, fr) == [root |-> SetAt(loc.root, top.path, c), stack |-> fr, exc |-> None]
        entry == strip(SubSeq(stripped, 3, Len(stripped)), Whitespace)
        ekey == strip(strip(SubSeq(entry, 1, Find(entry, ":") - 1), Whitespace), {"\""})
        eval == _parse_scalar(strip(SubSeq(entry, Find(entry, ":") + 1, Len(entry)),
                                    Whitespace))
        appended == SetDefaultAppend(container, ekey, eval)
        key == strip(strip(SubSeq(stripped, 1, Find(stripped, ":") - 1), Whitespace),
                     {"\""})
        val_str == strip(SubSeq(stripped, Find(stripped, ":") + 1, Len(stripped)),
                         Whitespace)
    IN  IF stripped = <<>> \/ stripped \in {<<"-", "-", "-">>, <<".", ".", ".">>} \/ Head(stripped) = "#"
        THEN loc
        ELSE IF startswith(stripped, <<"-", " ">>)
        THEN IF Find(entry, ":") > 0 /\ ~startswith(entry, <<"\"">>)
             THEN IF appended.kind = "raise"
                  THEN [root |-> loc.root, stack |-> frames, exc |-> appended.exc]
                  ELSE Updated(appended.v, frames)
             ELSE IF top.last_key = NoneV THEN Updated(container, frames)
             ELSE Updated(AppendUnderLastKey(container, top.last_key.str,
                                             _parse_scalar(entry)),
                          frames)
        ELSE IF Find(stripped, ":") > 0
        THEN IF val_str = <<>>
             THEN Updated(SetItem(container, _no_brackets(key), PyDict(<<>>)),
                          Append(frames, Frame(Append(top.path, _no_brackets(key)),
                                               indent, NoneV)))
             ELSE Updated(SetItem(container, _no_brackets(key), _parse_scalar(val_str)),
                          [frames EXCEPT ![Len(frames)].last_key = PyStr(key)])
        ELSE Updated(container, frames)

RECURSIVE ForLines(_, _)
ForLines(loc, lines) ==
    IF lines = <<>> \/ loc.exc # None THEN loc
    ELSE ForLines(ForLine(loc, Head(lines)), Tail(lines))

InitialFrames == <<Frame(<<>>, 0, NoneV)>>

parse_dtc_yaml(data) ==
    LET loc == ForLines([root |-> <<>>, stack |-> InitialFrames, exc |-> None],
                        splitlines(data))
    IN  IF loc.exc # None THEN Raise(loc.exc) ELSE Val(_flatten(PyDict(loc.root)))

\* the lines a text is made of
YamlLineKinds ==
    {<<"k", "e", "y", ":", " ", "[", "[", "\"", "a", "\"", ",", " ", "\"", "b", "\"", "]", "]">>,
     <<"a", ":", " ", "1">>,
     <<"-", " ", "a", ":", " ", "2">>,
     <<"a", ":">>,
     <<" ", " ", "b", ":", " ", "\"", "s", "\"">>,
     <<"-", " ", "2">>,
     <<"j", "u", "n", "k">>,
     <<"-", "-", "-">>,
     <<" ", " ", "-", " ", "3", ";", " ">>,
     <<" ", " ", "b", ":">>,
     <<"c", ":", " ", "1", ";", " ">>,
     <<"-", " ", "a", ":", " ", "[", "[", "2", "]", "]">>}
YamlTexts == {join(<<NL>>, lines) : lines \in SeqsUpTo(YamlLineKinds, MaxYamlLines)}

InitYaml ==
    /\ y_data \in YamlTexts
    /\ y_i = 1
    /\ y_root = <<>>
    /\ y_stack = InitialFrames
    /\ y_pc = "loop"
    /\ y_out = NoneV

IdleYaml ==
    /\ y_data = <<>>
    /\ y_i = 1
    /\ y_root = <<>>
    /\ y_stack = InitialFrames
    /\ y_pc = "off"
    /\ y_out = NoneV

outsideYaml ==
    <<diffVars, detectEnv, detectVars, cacheVars, rootVars, kvVars, extVars, scalarVars,
      overlayVars>>

\* one iteration of `for line in data.splitlines()`
YamlLine ==
    /\ y_pc = "loop"
    /\ y_i <= Len(splitlines(y_data))
    /\ LET loc == ForLine([root |-> y_root, stack |-> y_stack, exc |-> None],
                          splitlines(y_data)[y_i])
       IN  /\ y_root' = loc.root
           /\ y_stack' = loc.stack
           /\ y_pc' = IF loc.exc # None THEN "raised" ELSE "loop"
           /\ y_out' = IF loc.exc # None THEN Raise(loc.exc) ELSE y_out
    /\ y_i' = y_i + 1
    /\ UNCHANGED y_data
    /\ UNCHANGED outsideYaml

\* `return _flatten(root)`
YamlReturn ==
    /\ y_pc = "loop"
    /\ y_i > Len(splitlines(y_data))
    /\ y_out' = Val(_flatten(PyDict(y_root)))
    /\ y_pc' = "done"
    /\ UNCHANGED <<y_data, y_i, y_root, y_stack>>
    /\ UNCHANGED outsideYaml

----------------------------------------------------------------------------
(* identify_overlays, booted_with_edk, detect_efidir *)

\* `output.splitlines()[:20]`
JournalHead == 20
\* `if len(parts) < 6: continue` and parts[5]
DfColumns == 6

\* re.compile(r"efi: EFI v[\d.]+ by .+", re.IGNORECASE).search(line)
pattern_search(line) ==
    LET l == lower(line)
    IN  \E p \in 1..Len(l), q \in 1..Len(l) :
            /\ p + 9 <= Len(l)
            /\ SubSeq(l, p, p + 9) = <<"e", "f", "i", ":", " ", "e", "f", "i", " ", "v">>
            /\ q > p + 10
            /\ \A k \in (p + 10)..(q - 1) : l[k] \in ToSet(DecimalDigits) \cup {"."}
            /\ q + 4 <= Len(l)
            /\ SubSeq(l, q, q + 3) = <<" ", "b", "y", " ">>

\* booted_with_edk: CalledProcessError gives False, a missing executable
\* raises FileNotFoundError
booted_with_edk(run) ==
    LET output == check_output(run.installed, run)
        lines == splitlines(output.v)
        head == SubSeq(lines, 1, IF Len(lines) < JournalHead THEN Len(lines) ELSE JournalHead)
    IN  IF output.kind = "raise"
        THEN IF output.exc = "CalledProcessError" THEN Val(FALSE) ELSE output
        ELSE Val(\E i \in 1..Len(head) : pattern_search(head[i]))

\* the set boot_mounts of detect_efidir
boot_mounts(df_output) ==
    LET lines == splitlines(df_output)
    IN  {split(lines[i])[DfColumns] :
            i \in {k \in 2..Len(lines) : /\ Len(split(lines[k])) >= DfColumns
                                         /\ startswith(split(lines[k])[DfColumns],
                                                       <<"/", "b", "o", "o", "t">>)}}

detect_efidir(run) ==
    LET df_output == check_output(run.installed, run)
    IN  IF df_output.kind = "raise"
        THEN IF df_output.exc = "CalledProcessError" THEN NoneV ELSE df_output
        ELSE IF <<"/", "b", "o", "o", "t", "/", "e", "f", "i">> \in boot_mounts(df_output.v)
        THEN Val(<<"/", "b", "o", "o", "t", "/", "e", "f", "i">>)
        ELSE IF <<"/", "b", "o", "o", "t">> \in boot_mounts(df_output.v) THEN Val(<<"/", "b", "o", "o", "t">>)
        ELSE NoneV

\* an entry below overlays_path: its name, whether it lies in a
\* subdirectory, and what it is
Entry(name, nested, kind) == [name |-> name, nested |-> nested, kind |-> kind]
\* Path.is_file() follows symlinks; Path.is_symlink() does not
is_file(e) == e.kind \in {"file", "link_to_file"}
is_symlink(e) == e.kind \in {"link_to_file", "broken_link"}

\* overlays_path.rglob("*.dtbo"): the entries at any depth whose name matches
rglob_dtbo(dir) == {e \in dir.entries : endswith_(e.name, <<".", "d", "t", "b", "o">>)}

\* the names the loop over rglob appends: str(dtbo.resolve(strict=True))
\* cut after the last "/" is the name of a regular file
ListedNames(dir) ==
    {e.name : e \in {x \in rglob_dtbo(dir) : is_file(x) /\ ~is_symlink(x)}}

\* the orders in which rglob may yield the entries
Orders(names) ==
    {o \in SeqsUpTo(names, Cardinality(names)) : Len(o) = Cardinality(names) /\ ToSet(o) = names}

\* truth value of a parsed value
bool(v) ==
    IF IsStr(v) THEN v.str # <<>>
    ELSE IF IsInt(v) THEN v.int # 0
    ELSE IF IsList(v) THEN v.list # <<>>
    ELSE FALSE

\* str.split(sep) for a one-character sep
split_sep(s, sep) ==
    LET ends == {i \in 1..Len(s) : s[i] = sep} \cup {Len(s) + 1}
        End(k) == CHOOSE e \in ends : Cardinality({x \in ends : x < e}) = k - 1
    IN  [k \in 1..Cardinality(ends) |->
            SubSeq(s, IF k = 1 THEN 1 ELSE End(k - 1) + 1, End(k) - 1)]

U_BOOT_IS_SETUP == <<"U", "_", "B", "O", "O", "T", "_", "I", "S", "_", "S", "E", "T", "U", "P">>
U_BOOT_FDT_OVERLAYS == <<"U", "_", "B", "O", "O", "T", "_", "F", "D", "T", "_", "O", "V", "E", "R", "L", "A", "Y", "S">>

\* safe_exists: the directory of the path is a directory and the path
\* resolves to a regular file
extlinux_exists(file) == file.exists

\* the else branch of identify_overlays: the name dt is not defined in the
\* module, so the extlinux branch raises NameError before it reads the file;
\* .split on a list or an int raises AttributeError
bootloader_overlays(ufile, xfile) ==
    LET ubootcfg == parse_uboot(ufile).v
    IN  IF bool(GetItem(ubootcfg, U_BOOT_IS_SETUP))
        THEN IF HasKey(ubootcfg, U_BOOT_FDT_OVERLAYS)
             THEN IF IsStr(GetItem(ubootcfg, U_BOOT_FDT_OVERLAYS))
                  THEN Val([i \in 1..Len(split_sep(GetItem(ubootcfg, U_BOOT_FDT_OVERLAYS).str, " "))
                               |-> PyStr(split_sep(GetItem(ubootcfg, U_BOOT_FDT_OVERLAYS).str,
                                                   " ")[i])])
                  ELSE Raise("AttributeError")
             ELSE Val(<<>>)
        ELSE IF extlinux_exists(xfile) THEN Raise("NameError")
        ELSE Val(<<>>)

\* hosts: what journalctl prints
Filler(n) == [k \in 1..(2 * n) |-> IF k % 2 = 1 THEN "x" ELSE NL]
JournalLines ==
    {<<"k", "e", "r", "n", "e", "l", ":", " ", "e", "f", "i", ":", " ", "E", "F", "I", " ", "v", "2", ".", "7", "0", " ", "b", "y", " ", "E", "D", "K", " ", "I", "I">>,
     <<"k", "e", "r", "n", "e", "l", ":", " ", "E", "F", "I", ":", " ", "e", "f", "i", " ", "V", "2", " ", "B", "Y", " ", "x">>,
     <<"k", "e", "r", "n", "e", "l", ":", " ", "e", "f", "i", ":", " ", "E", "F", "I", " ", "v", " ", "b", "y", " ", "E", "D", "K", " ", "I", "I">>,
     <<"k", "e", "r", "n", "e", "l", ":", " ", "B", "o", "o", "t", "i", "n", "g", " ", "L", "i", "n", "u", "x">>}
NotInstalled == [installed |-> FALSE, rc |-> 1, stdout |-> <<>>]
Ran(rc, text) == [installed |-> TRUE, rc |-> rc, stdout |-> text]
Journals ==
    {NotInstalled, Ran(1, <<>>)}
        \cup {Ran(0, Filler(n) \o line \o <<NL>>) : n \in {0, JournalHead - 1, JournalHead},
                                                   line \in JournalLines}
EfiJournals == {j \in Journals : booted_with_edk(j) = Val(TRUE)}

\* hosts: what df prints, the header and any of these lines in this order
DfHeader == <<"F", "i", "l", "e", "s", "y", "s", "t", "e", "m", " ", "1", "K", "-", "b", "l", "o", "c", "k", "s", " ", "U", "s", "e", "d", " ", "A", "v", "a", "i", "l", "a", "b", "l", "e", " ", "U", "s", "e", "%", " ", "M", "o", "u", "n", "t", "e", "d", " ", "o", "n">>
DfBody ==
    <<<<"/", "d", "e", "v", "/", "a", " ", "1", " ", "1", " ", "1", " ", "1", "%", " ", "/", "b", "o", "o", "t", "/", "e", "f", "i">>,
      <<"/", "d", "e", "v", "/", "b", " ", "1", " ", "1", " ", "1", " ", "1", "%", " ", "/", "b", "o", "o", "t">>,
      <<"/", "d", "e", "v", "/", "c", " ", "1", " ", "1", " ", "1", " ", "1", "%", " ", "/">>,
      <<"t", "m", "p", "f", "s", " ", "1", " ", "1">>,
      <<"/", "d", "e", "v", "/", "d", " ", "1", " ", "1", " ", "1", " ", "1", "%", " ", "/", "b", "o", "o", "t", "x">>>>
DfText(chosen) ==
    Concat(<<DfHeader, <<NL>>>>
           \o [k \in 1..Len(DfBody) |-> IF k \in chosen THEN DfBody[k] \o <<NL>> ELSE <<>>])
DfRuns == {NotInstalled, Ran(1, <<>>)} \cup {Ran(0, DfText(c)) : c \in SUBSET (1..Len(DfBody))}

\* hosts: the directory <efi>/dtb/overlays
EspEntries ==
    {Entry(<<"a", ".", "d", "t", "b", "o">>, FALSE, "file"),
     Entry(<<"n", ".", "d", "t", "b", "o">>, TRUE, "file"),
     Entry(<<"l", ".", "d", "t", "b", "o">>, FALSE, "link_to_file"),
     Entry(<<"x", ".", "d", "t", "b", "o">>, FALSE, "broken_link"),
     Entry(<<"d", ".", "d", "t", "b", "o">>, FALSE, "dir"),
     Entry(<<"p", ".", "d", "t", "b">>, FALSE, "file")}
NoDir == [exists |-> FALSE, is_dir |-> FALSE, entries |-> {}]
NotADir == [exists |-> TRUE, is_dir |-> FALSE, entries |-> {}]
Dir(entries) == [exists |-> TRUE, is_dir |-> TRUE, entries |-> entries]
EspDirs == {NoDir, NotADir} \cup {Dir(es) : es \in SUBSET EspEntries}

\* hosts: /etc/default/u-boot and /boot/extlinux/extlinux.conf
SetupLines ==
    {<<>>,
     <<"U", "_", "B", "O", "O", "T", "_", "I", "S", "_", "S", "E", "T", "U", "P", "=", "t", "r", "u", "e", NL>>,
     <<"U", "_", "B", "O", "O", "T", "_", "I", "S", "_", "S", "E", "T", "U", "P", "=", "f", "a", "l", "s", "e", NL>>,
     <<"U", "_", "B", "O", "O", "T", "_", "I", "S", "_", "S", "E", "T", "U", "P", "=", NL>>,
     <<"U", "_", "B", "O", "O", "T", "_", "I", "S", "_", "S", "E", "T", "U", "P", "=", "0", NL>>}
OverlayLines ==
    {<<>>,
     <<"U", "_", "B", "O", "O", "T", "_", "F", "D", "T", "_", "O", "V", "E", "R", "L", "A", "Y", "S", "=", "a", NL>>,
     <<"U", "_", "B", "O", "O", "T", "_", "F", "D", "T", "_", "O", "V", "E", "R", "L", "A", "Y", "S", "=", "\"", "a", " ", "b", "\"", NL>>,
     <<"U", "_", "B", "O", "O", "T", "_", "F", "D", "T", "_", "O", "V", "E", "R", "L", "A", "Y", "S", "=", "a", " ", "b", NL>>,
     <<"U", "_", "B", "O", "O", "T", "_", "F", "D", "T", "_", "O", "V", "E", "R", "L", "A", "Y", "S", "=", "7", NL>>,
     <<"U", "_", "B", "O", "O", "T", "_", "F", "D", "T", "_", "O", "V", "E", "R", "L", "A", "Y", "S", "=", NL>>}
UBootFiles == {NoSuchFile} \cup {TextFile(a \o b) : a \in SetupLines, b \in OverlayLines}
ExtlinuxFiles ==
    {NoSuchFile,
     TextFile(<<"f", "d", "t", "o", "v", "e", "r", "l", "a", "y", "s", " ", "a", " ", "b">>),
     TextFile(<<"l", "a", "b", "e", "l", " ", "x", NL, "f", "d", "t", "o", "v", "e", "r", "l", "a", "y", "s", " ", "a", " ", "b">>),
     TextFile(<<"t", "i", "m", "e", "o", "u", "t", " ", "1">>)}

\* hosts that booted through UEFI: every df with no overlay directory and
\* with a full one, and every overlay directory under a /boot/efi mount (the
\* listing reads nothing of df); and hosts of any journal with every pair of
\* boot configs, which the UEFI branch does not read
Host(j, d, o, u, x) == [journalctl |-> j, df |-> d, overlays_dir |-> o, uboot_file |-> u,
                        extlinux_file |-> x]
Hosts ==
    {Host(j, d, o, NoSuchFile, NoSuchFile) :
        j \in EfiJournals, d \in DfRuns, o \in {NoDir, Dir(EspEntries)}}
        \cup {Host(j, Ran(0, DfText({1})), o, NoSuchFile, NoSuchFile) :
                 j \in EfiJournals, o \in EspDirs}
        \cup {Host(j, NotInstalled, NoDir, u, x) :
                 j \in Journals, u \in UBootFiles, x \in ExtlinuxFiles}

InitOverlays ==
    /\ \E h \in Hosts :
          /\ journalctl = h.journalctl
          /\ df = h.df
          /\ overlays_dir = h.overlays_dir
          /\ uboot_file = h.uboot_file
          /\ extlinux_file = h.extlinux_file
    /\ io_pc = "start"
    /\ efi = NoneV
    /\ io_out = NoneV

IdleOverlays ==
    /\ journalctl = NotInstalled
    /\ df = NotInstalled
    /\ overlays_dir = NoDir
    /\ uboot_file = NoSuchFile
    /\ extlinux_file = NoSuchFile
    /\ io_pc = "off"
    /\ efi = NoneV
    /\ io_out = NoneV

overlayEnv == <<journalctl, df, overlays_dir, uboot_file, extlinux_file>>
outsideOverlays ==
    <<diffVars, detectEnv, detectVars, cacheVars, rootVars, kvVars, extVars, scalarVars,
      yamlVars>>

\* `if booted_with_edk():`
BootedWithEdk ==
    /\ io_pc = "start"
    /\ LET booted == booted_with_edk(journalctl)
       IN  /\ io_pc' = IF booted.kind = "raise" THEN "raised"
                       ELSE IF booted.v THEN "efi" ELSE "bootloader"
           /\ io_out' = IF booted.kind = "raise" THEN booted ELSE io_out
    /\ UNCHANGED <<overlayEnv, efi>>
    /\ UNCHANGED outsideOverlays

\* `efi = detect_efidir()`, OSError if it is None
DetectEfidir ==
    /\ io_pc = "efi"
    /\ LET found == detect_efidir(df)
       IN  /\ efi' = IF found.kind = "value" THEN found ELSE NoneV
           /\ io_pc' = IF found.kind = "value" THEN "list" ELSE "raised"
           /\ io_out' = IF found.kind = "raise" THEN found
                        ELSE IF found.kind = "none" THEN Raise("OSError")
                        ELSE io_out
    /\ UNCHANGED overlayEnv
    /\ UNCHANGED outsideOverlays

\* the listing of overlays_path
ListOverlays ==
    /\ io_pc = "list"
    /\ IF ~overlays_dir.exists \/ ~overlays_dir.is_dir
       THEN io_out' = Val(<<>>)
       ELSE \E names \in Orders(ListedNames(overlays_dir)) :
                io_out' = Val([i \in 1..Len(names) |-> PyStr(names[i])])
    /\ io_pc' = "done"
    /\ UNCHANGED <<overlayEnv, efi>>
    /\ UNCHANGED outsideOverlays

\* the else branch: parse_uboot, then the u-boot or the extlinux overlays
ReadBootConfig ==
    /\ io_pc = "bootloader"
    /\ io_out' = bootloader_overlays(uboot_file, extlinux_file)
    /\ io_pc' = IF io_out'.kind = "raise" THEN "raised" ELSE "done"
    /\ UNCHANGED <<overlayEnv, efi>>
    /\ UNCHANGED outsideOverlays

IdleCodecs == IdleRoot /\ IdleKV /\ IdleExt /\ IdleScalar /\ IdleYaml /\ IdleOverlays

IdleDiff ==
    /\ df_base = <<>>
    /\ df_live = <<>>
    /\ df_out = {}
    /\ df_pc = "off"

IdleDetect ==
    /\ liveOut = ExitNonZero
    /\ dtcOut = [c \in Cands |-> ExitNonZero]
    /\ dl_pc = "off"
    /\ live_dts_str = <<>>
    /\ live_hash = hash_str(<<>>)
    /\ task = [c \in Cands |-> "unsubmitted"]
    /\ taskResult = [c \in Cands |-> NoneV]
    /\ observed = {}
    /\ min_diff = Inf
    /\ best_match = NoneV
    /\ best_dts = NoneV
    /\ dl_ret = NoneV
    /\ dl_exc = None

NextDiff == ApplyDiff /\ UNCHANGED outsideDiff

DiffStart ==
    /\ InitDiff /\ IdleDetect /\ IdleCache /\ IdleCodecs
    /\ dtcInstalled = TRUE /\ DTB_PATH = None

SpecDiff == DiffStart /\ [][NextDiff]_vars

NextDetect ==
    \/ DetectCall
    \/ \E c \in Cands : TaskFinish(c)
    \/ \E c \in Cands : LoopStep(c)
    \/ LoopEnd
    \/ WithExit

DetectStart == IdleDiff /\ InitDetect /\ IdleCache /\ IdleCodecs

SpecDetect == DetectStart /\ [][NextDetect]_vars

CacheStart == IdleDiff /\ IdleDetect /\ InitCache /\ IdleCodecs

SpecCache == CacheStart /\ [][NextCache]_vars

NextRoot == ForPattern

RootStart ==
    /\ IdleDiff /\ IdleDetect /\ IdleCache /\ InitRoot /\ IdleKV /\ IdleExt
    /\ IdleScalar /\ IdleYaml /\ IdleOverlays
    /\ dtcInstalled = TRUE

SpecRoot == RootStart /\ [][NextRoot]_vars

NextKV == ParseCall \/ EncodeCall \/ WriteBack \/ ParseAgain

KVStart ==
    /\ IdleDiff /\ IdleDetect /\ IdleCache /\ IdleRoot /\ InitKV /\ IdleExt
    /\ IdleScalar /\ IdleYaml /\ IdleOverlays
    /\ dtcInstalled = TRUE /\ DTB_PATH = None

SpecKV == KVStart /\ [][NextKV]_vars

NextExt == ParseLine \/ ParseReturn \/ SerializeCall \/ ParseSerialized

ExtStart ==
    /\ IdleDiff /\ IdleDetect /\ IdleCache /\ IdleRoot /\ IdleKV /\ InitExt
    /\ IdleScalar /\ IdleYaml /\ IdleOverlays
    /\ dtcInstalled = TRUE /\ DTB_PATH = None

SpecExt == ExtStart /\ [][NextExt]_vars

NextScalar == ScalarCall

ScalarStart ==
    /\ IdleDiff /\ IdleDetect /\ IdleCache /\ IdleRoot /\ IdleKV /\ IdleExt
    /\ InitScalar /\ IdleYaml /\ IdleOverlays
    /\ dtcInstalled = TRUE /\ DTB_PATH = None

SpecScalar == ScalarStart /\ [][NextScalar]_vars

NextYaml == YamlLine \/ YamlReturn

YamlStart ==
    /\ IdleDiff /\ IdleDetect /\ IdleCache /\ IdleRoot /\ IdleKV /\ IdleExt
    /\ IdleScalar /\ InitYaml /\ IdleOverlays
    /\ dtcInstalled = TRUE /\ DTB_PATH = None

SpecYaml == YamlStart /\ [][NextYaml]_vars

NextOverlays == BootedWithEdk \/ DetectEfidir \/ ListOverlays \/ ReadBootConfig

OverlaysStart ==
    /\ IdleDiff /\ IdleDetect /\ IdleCache /\ IdleRoot /\ IdleKV /\ IdleExt
    /\ IdleScalar /\ IdleYaml /\ InitOverlays
    /\ dtcInstalled = TRUE /\ DTB_PATH = None

SpecOverlays == OverlaysStart /\ [][NextOverlays]_vars

----------------------------------------------------------------------------
(* Properties of detect_live (SpecDetect) *)

\* the call got as far as submitting the candidate tasks
LiveRead == dtcInstalled /\ liveOut.rc = 0 /\ DTB_PATH # None
Finished == dl_pc \in {"returned", "raised"}
Converts(c) == dtcOut[c].rc = 0
ExactCands == {c \in Cands : Converts(c) /\ dtcOut[c].stdout = liveOut.stdout}
ConvertedCands == {c \in Cands : Converts(c)}
\* the lines of the live text that a candidate's text lacks
LiveOnly(c) == diff_dts(dtcOut[c].stdout, liveOut.stdout)
MinCands ==
    {c \in ConvertedCands :
        \A d \in ConvertedCands : Cardinality(LiveOnly(c)) <= Cardinality(LiveOnly(d))}
Min(S) == CHOOSE m \in S : \A n \in S : m <= n

\* C1: if some candidate converts to a text identical to the live text,
\* detect_live returns the id of such a candidate with an empty diff, in
\* every completion order of the candidate tasks
C1_ExactMatchReturned ==
    (Finished /\ LiveRead /\ ExactCands # {}) =>
        /\ dl_pc = "returned"
        /\ \E c \in ExactCands : dl_ret = Val(<<Val(c), {}>>)

\* an exact match is returned although another candidate was seen before it
C1_Witness ==
    /\ dl_pc = "returned"
    /\ LiveRead
    /\ \E c \in ExactCands : dl_ret = Val(<<Val(c), {}>>)
    /\ \E d \in observed : d \notin ExactCands /\ Converts(d)

\* C2: with no exact match and at least one converted candidate, detect_live
\* returns a candidate of minimum diff length together with that candidate's
\* diff; for the catalog {A, B} and the live text x,y,z,w it returns B with
\* the diff {w}
C2_MinimumDiffReturned ==
    /\ (Finished /\ LiveRead /\ ExactCands = {} /\ ConvertedCands # {}) =>
           /\ dl_pc = "returned"
           /\ \E c \in MinCands : dl_ret = Val(<<Val(c), LiveOnly(c)>>)
    /\ (/\ Finished /\ LiveRead /\ liveOut.stdout = TL
        /\ \A c \in Cands : dtcOut[c] \in {Exit0(TA), Exit0(TB)}
        /\ \E c \in Cands : dtcOut[c] = Exit0(TB)) =>
           \E c \in Cands : dtcOut[c] = Exit0(TB) /\ dl_ret = Val(<<Val(c), {<<"w">>}>>)

\* the scenario of the specification, with A's task seen after B's
C2_Witness ==
    /\ dl_pc = "returned"
    /\ LiveRead
    /\ liveOut.stdout = TL
    /\ dtcOut[1] = Exit0(TA)
    /\ dtcOut[2] = Exit0(TB)
    /\ observed = Cands
    /\ dl_ret = Val(<<Val(2), {<<"w">>}>>)

\* C3: when several candidates tie at the minimum diff length and none
\* matches exactly, the earliest candidate of the candidate ordering is
\* returned, whatever the completion order of the tasks
C3_TieGoesToEarliestCandidate ==
    (dl_pc = "returned" /\ LiveRead /\ ExactCands = {} /\ ConvertedCands # {}) =>
        dl_ret.v[1] = Val(Min(MinCands))

\* C4: once an exact match has been observed, detect_live can return: it
\* does not wait for the candidate tasks that are still running
C4_ReturnsWithoutWaiting ==
    (dl_pc = "with_exit" /\ dl_ret.kind = "value") => ENABLED WithExit

\* C9: the compiler adapter returns None instead of raising, on a non-zero
\* exit and on a missing executable, and detect_live reports an unreadable
\* live tree as (None, message)
C9_AdapterNeverRaises ==
    (dl_pc # "idle") =>
        /\ fdt_hash_from_proc.kind # "raise"
        /\ \A c \in Cands : dtb_to_dts(CandPath(c)).kind # "raise"
        /\ (Finished /\ fdt_hash_from_proc.kind # "value") =>
               /\ dl_pc = "returned"
               /\ dl_ret = Val(<<NoneV, "Could not read live FDT">>)

\* C28: detect_live returns a candidate id with an empty diff only if that
\* candidate's fingerprint equals the live fingerprint; a candidate that only
\* contains every line of the live tree is not reported like an exact match.
C28_EmptyDiffOnlyForExactMatch ==
    (/\ dl_pc = "returned"
     /\ dl_ret.kind = "value"
     /\ dl_ret.v[1].kind = "value"
     /\ dl_ret.v[2] = {}) =>
        \E c \in Cands :
            /\ relative_to(CandPath(c), DTB_PATH) = dl_ret.v[1].v
            /\ taskResult[c].kind = "value"
            /\ taskResult[c].v[2] = live_hash

----------------------------------------------------------------------------
(* Properties of diff_dts (SpecDiff) *)

\* l is a line of the text s: a maximal run of characters other than NL,
\* starting at the start of s or after an NL and ending before an NL or at
\* the end of s; the empty run after the last NL is no line
IsLineOf(l, s) ==
    \E i \in 1..(Len(s) + 1), n \in 0..Len(s) :
        /\ i + n - 1 <= Len(s)
        /\ l = SubSeq(s, i, i + n - 1)
        /\ \A k \in 1..Len(l) : l[k] # NL
        /\ (i = 1 \/ s[i - 1] = NL)
        /\ (i + n = Len(s) + 1 \/ s[i + n] = NL)
        /\ ~(n = 0 /\ i = Len(s) + 1)

Pieces(s) == {SubSeq(s, i, j) : i \in 1..(Len(s) + 1), j \in 0..Len(s)}

\* C5: diff_dts(base, live) is exactly the set of distinct lines of live
\* that do not occur in base: live-only lines appear, base-only lines never
\* do, and diff_dts(t, t) is empty
C5_DiffIsLiveMinusBase ==
    (df_pc = "done") =>
        /\ df_out = {l \in Pieces(df_live) : IsLineOf(l, df_live) /\ ~IsLineOf(l, df_base)}
        /\ \A l \in Pieces(df_base) :
               (IsLineOf(l, df_base) /\ ~IsLineOf(l, df_live)) => l \notin df_out
        /\ (df_base = df_live => df_out = {})

\* both a live-only line and a base-only line exist, and a line of live is
\* repeated
C5_Witness ==
    /\ df_pc = "done"
    /\ df_base = <<"x", NL, "x">>
    /\ df_live = <<"y", NL, "y">>
    /\ df_out = {<<"y">>}

----------------------------------------------------------------------------
(* Properties of gencache and extract_dtb_info (SpecCache) *)

\* the paths that had a task in the last gencache call, and those whose task
\* computed metadata
TaskPaths == {f[1] : f \in futures}
Fresh == {q \in TaskPaths : g_task[q] = "done" /\ g_result[q].kind = "value"}
\* the snapshot r holds data for q under q's category
InRes(r, q, data) == q \in DOMAIN r[KindOf(q)] /\ r[KindOf(q)][q] = data
Listed(r, q) == q \in (DOMAIN r.base) \cup (DOMAIN r.overlays)

\* C6: the snapshot gencache returns contains every entry freshly computed in
\* the call and every .dtb/.dtbo entry cached before the call, and every
\* freshly computed entry is in the cache afterwards, whatever happens to
\* individual tasks
C6_SnapshotHasFreshAndCached ==
    /\ g_pc # "raised"
    /\ (g_pc = "returned") =>
          /\ \A q \in DOMAIN preCache :
                (endswith(q, ".dtb") \/ endswith(q, ".dtbo")) =>
                    InRes(g_ret.v, q, preCache[q])
          /\ \A q \in Fresh :
                /\ InRes(g_ret.v, q, g_result[q].v[3])
                /\ q \in DOMAIN dtcache
                /\ dtcache[q] = g_result[q].v[3]

\* C7: a file whose conversion or extraction fails is absent from the
\* snapshot and the cache, and every other file of the batch whose
\* extraction succeeds is present in both
C7_FailureIsIsolated ==
    (g_pc = "returned") =>
        \A q \in TaskPaths :
            IF g_result[q].kind = "value"
            THEN InRes(g_ret.v, q, g_result[q].v[3]) /\ q \in DOMAIN dtcache
            ELSE ~Listed(g_ret.v, q) /\ q \notin DOMAIN dtcache

\* C8: the cache starts empty; an entry is never removed or replaced, dtc is
\* never run again for a cached path, and extract_dtb_info on a cached path
\* returns the stored metadata
C8_CacheOnlyGrows ==
    /\ dtcache = <<>>
    /\ [][\A q \in DOMAIN dtcache :
             /\ q \in DOMAIN dtcache'
             /\ dtcache'[q] = dtcache[q]
             /\ q \notin lastDtc'
             /\ (e_ret'.kind = "value" /\ e_ret'.v.path = q) =>
                    e_ret'.v.ret = Val(dtcache[q])]_vars

\* extract_dtb_info answers from the cache for a file that no longer converts
C8_Witness ==
    /\ rewrites > 0
    /\ e_ret.kind = "value"
    /\ e_ret.v.path \in DOMAIN dtcache
    /\ e_ret.v.ret = Val(dtcache[e_ret.v.path])
    /\ disk[e_ret.v.path] = BadFile
    /\ lastDtc = {}

\* C10: with no readable catalog file and an empty cache, gencache returns
\* empty base and overlays mappings and raises nothing
C10_EmptyCatalogEmptySnapshot ==
    (/\ g_pc \in {"returned", "raised"}
     /\ preCache = <<>>
     /\ \A q \in Paths : g_result[q].kind # "value") =>
        /\ g_pc = "returned"
        /\ g_ret = Val(EmptyRes)

\* a catalog in which one file is rejected by dtc and another makes its task
\* raise, scanned with an empty cache
C10_Witness ==
    /\ g_pc = "returned"
    /\ preCache = <<>>
    /\ \E q \in TaskPaths : g_result[q].kind = "raise"
    /\ \E q \in TaskPaths : g_result[q].kind = "none"
    /\ \A q \in Paths : g_result[q].kind # "value"
    /\ g_ret = Val(EmptyRes)

\* the paths whose entry of the orchestrator's dtcache differs after the step
Written == {q \in Paths : q \in DOMAIN dtcache' /\ (q \notin DOMAIN dtcache
                                                      \/ dtcache'[q] # dtcache[q])}

\* C24: within one gencache call each catalog path is submitted to at most
\* one extraction task, only paths absent from the cache are submitted, and
\* the orchestrator writes the cache entry of a path only after that path's
\* task has completed, once: no entry is written twice in one batch.
C24_OneTaskOneWritePerPath ==
    /\ (g_pc \in {"loop", "with_exit"}) =>
          /\ \A q \in Paths : Cardinality({f \in futures : f[1] = q}) <= 1
          /\ \A q \in TaskPaths : q \notin DOMAIN preCache
          /\ \A q \in Paths : (g_task[q] # "unsubmitted") <=> (q \in TaskPaths)
    /\ [][(g_pc \in {"loop", "with_exit"}) =>
             \A q \in Written :
                 /\ q \in TaskPaths
                 /\ g_task[q] = "done"
                 /\ q \notin DOMAIN dtcache
                 /\ q \in g_observed' \ g_observed
                 /\ Written = {q}]_vars

\* a batch in which one path was cached before the call and has no task, the
\* entry of a second was written after its task, and a third task still runs
C24_Witness ==
    /\ g_pc = "loop"
    /\ \E q \in Paths : q \in DOMAIN preCache /\ disk[q].exists /\ q \notin TaskPaths
    /\ \E q \in TaskPaths : q \in g_observed /\ q \in DOMAIN dtcache
    /\ \E q \in TaskPaths : g_task[q] = "running"

----------------------------------------------------------------------------
(* Properties of the catalog root (SpecRoot) *)

Imported == pattern_i > Len(candidates)

\* the candidate paths in the order of the configured patterns
CandidateOrder == Concat([i \in 1..Len(candidates) |-> Expand(candidates[i])])
ExistingDirs == SelectSeq(CandidateOrder, LAMBDA p : fsys[p] = "dir")
ModulesDirs == {p \in RootPaths : p # "/boot/dtbs" /\ fsys[p] = "dir"}

\* C11: after the import, DTB_PATH is the first existing directory in the
\* order of the configured candidates; when a modules-versioned directory and
\* /boot/dtbs both exist, the modules-versioned one is chosen
C11_FirstExistingRootWins ==
    Imported =>
        /\ DTB_PATH = (IF ExistingDirs = <<>> THEN None ELSE Head(ExistingDirs))
        /\ (ModulesDirs # {} /\ fsys["/boot/dtbs"] = "dir") => DTB_PATH \in ModulesDirs

----------------------------------------------------------------------------
(* Properties of the key=value codecs (SpecKV) *)

\* the KEY=value lines of the file the parser read, and for a key the text
\* after "=" of the last line that sets it
FileLines ==
    LET lines == splitlines(kv_file.text)
    IN  [i \in 1..Len(lines) |-> strip(lines[i], Whitespace)]
IsKvLine(l) == l # <<>> /\ Head(l) # "#" /\ Find(l, "=") > 0
KeyOf(l) == strip(SubSeq(l, 1, Find(l, "=") - 1), Whitespace)
ValueOf(l) == SubSeq(l, Find(l, "=") + 1, Len(l))
LastLineOf(key) ==
    FileLines[CHOOSE i \in 1..Len(FileLines) :
                 /\ IsKvLine(FileLines[i]) /\ KeyOf(FileLines[i]) = key
                 /\ \A j \in (i + 1)..Len(FileLines) :
                        ~(IsKvLine(FileLines[j]) /\ KeyOf(FileLines[j]) = key)]
FileKeys == {KeyOf(FileLines[i]) : i \in {j \in 1..Len(FileLines) : IsKvLine(FileLines[j])}}
\* the config last parsed from kv_file
Parsed == IF kv_pc = "done" THEN kv_again ELSE kv_config
Lookup(d, key) == d[CHOOSE i \in 1..Len(d) : d[i][1] = key][2]
AllDigits(token) == token # <<>> /\ \A i \in 1..Len(token) : token[i] \in {"0", "1"}

\* C14: the value of every KEY=value line is shell-tokenized: one token is
\* stored as a scalar, two or more tokens as a list in token order, and a
\* token is stored as an integer if it is made only of digits and as the
\* string itself otherwise
C14_TokensStoredByCountAndKind ==
    (kv_pc \in {"encode", "write", "done"}) =>
        \A key \in FileKeys :
            LET tokens == shlex_split(ValueOf(LastLineOf(key)))
                stored == Lookup(Parsed.v, key)
                StoredAs(v, token) ==
                    IF AllDigits(token)
                    THEN /\ IsInt(v)
                         /\ str(v.int) = (IF lstrip(token, {"0"}) = <<>> THEN <<"0">>
                                          ELSE lstrip(token, {"0"}))
                    ELSE v = PyStr(token)
            IN  (tokens.kind = "value") =>
                    /\ (Len(tokens.v) = 1) => StoredAs(stored, tokens.v[1])
                    /\ (Len(tokens.v) >= 2) =>
                           /\ IsList(stored)
                           /\ Len(stored.list) = Len(tokens.v)
                           /\ \A i \in 1..Len(tokens.v) : StoredAs(stored.list[i], tokens.v[i])

\* two lines of two tokens, one of them made of digits, are each stored as a
\* list of a string and an integer in token order
C14_Witness ==
    /\ kv_pc = "encode"
    /\ <<"K">> \in FileKeys
    /\ Lookup(kv_config.v, <<"K">>) = PyList(<<PyStr(<<"a">>), PyInt(1)>>)
    /\ <<"L">> \in FileKeys
    /\ Lookup(kv_config.v, <<"L">>) = PyList(<<PyInt(1), PyStr(<<"a">>)>>)

\* C12: whenever the parsed config has been serialized and the serialized
\* text parsed again, the second config equals the first one: a value parsed
\* to a list of two strings is that same list after the round trip
C12_ReparseGivesSameConfig ==
    (kv_pc = "done") => kv_again = kv_config

\* C15: the encoder never fails on a config the parser produced, and emits
\* the header followed by one KEY=field line per key in mapping order: an
\* integer as decimal digits, a string in single quotes with every embedded
\* single quote escaped, a list as its elements joined by single spaces and
\* quoted as one field
C15_EncodeNeverFails ==
    /\ (kv_pc = "raised") => kv_config.kind = "raise"
    /\ (kv_pc \in {"write", "reparse", "done"}) =>
          LET out == splitlines(kv_text.v)
              Field(v) == IF IsInt(v) THEN str(v.int)
                          ELSE <<"'">> \o replace(v.str, "'", <<"'", "\"", "'", "\"", "'">>) \o <<"'">>
              Text(v) == IF IsList(v)
                         THEN PyStr(join(<<" ">>, [i \in 1..Len(v.list) |->
                                  IF IsInt(v.list[i]) THEN str(v.list[i].int)
                                  ELSE v.list[i].str]))
                         ELSE v
          IN  /\ Len(out) = Len(kv_config.v) + 1
              /\ \A i \in 1..Len(kv_config.v) :
                     out[i + 1] = kv_config.v[i][1] \o <<"=">> \o Field(Text(kv_config.v[i][2]))

----------------------------------------------------------------------------
(* Properties of the boot-menu codec (SpecExt) *)

\* a dict as the set of its items, and a config as two such mappings:
\* equality of dicts does not depend on the insertion order
Items(d) == ToSet(d)
AsMappings(config) ==
    [global |-> Items(config.global),
     labels |-> {<<config.labels[i][1], Items(config.labels[i][2])>> :
                    i \in 1..Len(config.labels)}]

\* the stripped lines of the source; line l names a label, is a directive
SourceLines ==
    LET lines == splitlines(x_source)
    IN  [i \in 1..Len(lines) |-> strip(lines[i], Whitespace)]
IsLabelLine(l) == Len(l) >= 7 /\ lower(SubSeq(l, 1, 5)) = <<"l", "a", "b", "e", "l">> /\ l[6] = " "
IsDirective(l) == l # <<>> /\ Head(l) # "#" /\ ~IsLabelLine(l)
\* the items of one section: of the global section, which is written as
\* the empty name no label has, or of the label named
GlobalSection == <<>>
SectionItems(config, section) ==
    IF section = GlobalSection THEN Items(config.global)
    ELSE UNION {Items(config.labels[i][2]) :
                   i \in {j \in 1..Len(config.labels) : config.labels[j][1] = section}}
Sections(config) == {GlobalSection} \cup {config.labels[i][1] : i \in 1..Len(config.labels)}
\* the stripped lines of the serialized text
TextLines ==
    LET lines == splitlines(x_text.v)
    IN  {strip(lines[i], Whitespace) : i \in 1..Len(lines)}

\* C16: the step of the parser over a directive line stores the lowercased
\* key in the mapping of the most recent LABEL line before it, or in the
\* global section if there is none, and changes no other section and no other
\* key; the stored value is null exactly if the line has no value; every null
\* directive is serialized as the bare uppercased key
C16_DirectiveGoesToRecentLabel ==
    /\ [][(x_pc = "parse" /\ x_i' = x_i + 1 /\ IsDirective(SourceLines[x_i])) =>
             LET l == SourceLines[x_i]
                 labelsBefore == {j \in 1..(x_i - 1) : IsLabelLine(SourceLines[j])}
                 recent == CHOOSE j \in labelsBefore : \A k \in labelsBefore : k <= j
                 section == IF labelsBefore = {} THEN GlobalSection
                            ELSE strip(SubSeq(SourceLines[recent], 7,
                                              Len(SourceLines[recent])), Whitespace)
                 bare == \A k \in 1..Len(l) : l[k] # " "
                 key == lower(IF bare THEN l ELSE SubSeq(l, 1, Find(l, " ") - 1))
             IN  /\ \E item \in SectionItems(x_config', section) :
                        item[1] = key /\ (item[2] = NoneV <=> bare)
                 /\ Sections(x_config') = Sections(x_config)
                 /\ \A sec \in Sections(x_config) :
                        {it \in SectionItems(x_config', sec) : sec # section \/ it[1] # key}
                            = {it \in SectionItems(x_config, sec) : sec # section \/ it[1] # key}
          ]_vars
    /\ [](x_pc \in {"reparse", "done"} =>
             \A sec \in Sections(x_config) :
                 \A item \in SectionItems(x_config, sec) :
                     (item[2] = NoneV) => upper(item[1]) \in TextLines)

\* a directive without a value under the second of two labels, parsed and
\* serialized
C16_Witness ==
    /\ x_pc = "done"
    /\ Len(x_config.labels) = 2
    /\ x_config.global = <<>>
    /\ x_config.labels[1][2] = <<>>
    /\ x_config.labels[2][2] = << <<<<"m", "e", "n", "u">>, NoneV>> >>

\* C13: parsing the serialized config gives a config equal to the parsed
\* one, for directives of the global section and under labels
C13_ExtlinuxReparseGivesSameConfig ==
    (x_pc = "done") => AsMappings(x_again.v) = AsMappings(x_config)

\* C17: in the global section and under a label, fdtoverlays with a value is
\* stored as the list of its whitespace-separated tokens and serialized as
\* <<"f", "d", "t", "o", "v", "e", "r", "l", "a", "y", "s">>VERLAYS followed by the tokens joined by single spaces
C17_OverlayListInEverySection ==
    \A sec \in Sections(x_config) :
        \A item \in SectionItems(x_config, sec) :
            (item[1] = <<"f", "d", "t", "o", "v", "e", "r", "l", "a", "y", "s">> /\ item[2] # NoneV) =>
                /\ IsList(item[2])
                /\ \A i \in 1..Len(item[2].list) :
                       /\ IsStr(item[2].list[i])
                       /\ item[2].list[i].str # <<>>
                       /\ \A k \in 1..Len(item[2].list[i].str) :
                              item[2].list[i].str[k] \notin Whitespace
                /\ (x_pc \in {"reparse", "done"}) =>
                       (upper(<<"f", "d", "t", "o", "v", "e", "r", "l", "a", "y", "s">>) \o <<" ">>
                            \o join(<<" ">>, [i \in 1..Len(item[2].list) |-> item[2].list[i].str]))
                           \in TextLines

----------------------------------------------------------------------------
(* Properties of _parse_scalar (SpecScalar) *)

\* the classes of a stripped value text, in the order of the inference
InQuotes(val) == val # <<>> /\ Head(val) = "\"" /\ val[Len(val)] = "\""
IsTrueFalse(val) == lower(val) = <<"t", "r", "u", "e">> \/ lower(val) = <<"f", "a", "l", "s", "e">>
InBrackets(val) == val # <<>> /\ Head(val) = "["
Positions(val, chars) == {i \in 1..Len(val) : val[i] \in chars}
\* digits around one decimal point
PointNumeral(val) ==
    /\ Cardinality(Positions(val, {"."})) = 1
    /\ Positions(val, {"."}) \cup Positions(val, ToSet(DecimalDigits)) = 1..Len(val)
    /\ Len(val) >= 2
\* a decimal numeral without a leading zero, zero, or a numeral with a prefix
\* announcing its radix
PlainNumeral(val) ==
    \/ /\ val # <<>>
       /\ Positions(val, ToSet(DecimalDigits)) = 1..Len(val)
       /\ (Head(val) # "0" \/ Positions(val, {"0"}) = 1..Len(val))
    \/ /\ Len(val) >= 3 /\ Head(val) = "0"
       /\ \/ /\ val[2] \in {"x", "X"}
             /\ Positions(val, ToSet(DecimalDigits)
                                  \cup {"a", "b", "c", "d", "e", "f"}
                                  \cup {"A", "B", "C", "D", "E", "F"}) \cup {2} = 1..Len(val)
          \/ /\ val[2] \in {"b", "B"}
             /\ Positions(val, {"0", "1"}) \cup {2} = 1..Len(val)
          \/ /\ val[2] \in {"o", "O"}
             /\ Positions(val, {"0", "1", "2", "3", "4", "5", "6", "7"}) \cup {2} = 1..Len(val)

\* C19: _parse_scalar returns for every value text, by the first class that
\* applies: a text in double quotes gives its content as a string; true or
\* false gives a boolean; a bracketed text gives a list; a numeral gives a
\* float if it holds a decimal point and otherwise an integer read in the
\* radix of its prefix; anything else gives the text itself.  0x10 gives 16,
\* 3.5 gives the float 3.5, true gives the boolean and "hello" gives hello
C19_ScalarInferenceOrder ==
    (ps_pc = "done") =>
        LET val == strip(ps_val, Whitespace)
            out == ps_out.v
        IN  /\ ps_out.kind = "value"
            /\ CASE InQuotes(val) -> out = PyStr(SubSeq(val, 2, Len(val) - 1))
                 [] ~InQuotes(val) /\ IsTrueFalse(val) -> out = PyBool(lower(val) = <<"t", "r", "u", "e">>)
                 [] ~InQuotes(val) /\ ~IsTrueFalse(val) /\ InBrackets(val) -> IsList(out)
                 [] OTHER ->
                      IF PointNumeral(val) THEN "float" \in DOMAIN out
                      ELSE IF PlainNumeral(val) THEN IsInt(out)
                      ELSE out = PyStr(val)
            /\ (val = <<"0", "x", "1", "0">>) => out = PyInt(16)
            /\ (val = <<"0", "b", "1", "1">>) => out = PyInt(3)
            /\ (val = <<"1", "0">>) => out = PyInt(10)
            /\ (val = <<"3", ".", "5">>) => out = PyFloat(35, 1)
            /\ (val = <<"1", ".", "0">>) => out = PyFloat(1, 0)
            /\ (val = <<"t", "r", "u", "e">>) => out = PyBool(TRUE)
            /\ (val = <<"\"", "h", "e", "l", "l", "o", "\"">>) => out = PyStr(<<"h", "e", "l", "l", "o">>)

\* a numeral with a hexadecimal prefix, padded with blanks
C19_Witness ==
    /\ ps_pc = "done"
    /\ ps_val = <<" ">> \o <<"0", "x", "1", "0">> \o <<" ">>
    /\ ps_out = Val(PyInt(16))

\* a token in double quotes with no double quote inside
QuotedToken(q) ==
    /\ Len(q) >= 2
    /\ Positions(q, {"\""}) = {1, Len(q)}

\* C30: a double-quoted token keeps string type wherever it occurs: as the
\* element of a flow list, "true", "0x10" and "[x" parse to the strings true,
\* 0x10 and [x, as the same quoted text parses when it is the whole value.
C30_QuotedElementStaysString ==
    (ps_pc = "done") =>
        \A q \in ScalarPieces :
            (QuotedToken(q) /\ ps_val = <<"[">> \o q \o <<"]">>) =>
                /\ _parse_scalar(q) = PyStr(SubSeq(q, 2, Len(q) - 1))
                /\ ps_out = Val(PyList(<<_parse_scalar(q)>>))

----------------------------------------------------------------------------
(* Properties of parse_dtc_yaml (SpecYaml) *)

YamlLines == splitlines(y_data)

\* the line of the compiler's output whose value is one list wrapped once
WrappedOnce == <<"k", "e", "y", ":", " ", "[", "[", "\"", "a", "\"", ",", " ", "\"", "b", "\"", "]", "]">>

\* the mapping the last line of the text was stored into
LastContainer == GetAt(y_out.v.dict, y_stack[Len(y_stack)].path)

\* C18: parsing a value rendered as a single-element list containing one
\* list, `key: [["a", "b"]]`, yields the inner two-element list ["a", "b"]
\* for that key, neither the wrapper nor a partially unwrapped list.
C18_WrappedOnceYieldsInnerList ==
    (y_pc = "done" /\ YamlLines # <<>> /\ YamlLines[Len(YamlLines)] = WrappedOnce)
        => GetItem(LastContainer, <<"k", "e", "y">>)
               = PyList(<<PyStr(<<"a">>), PyStr(<<"b">>)>>)

\* C20: parse_dtc_yaml returns a tree for every input text; no line makes it
\* raise, a `- key: value` item whose key already holds a non-list value in
\* the current mapping included.
C20_ParserNeverRaises ==
    /\ y_pc # "raised"
    /\ (y_pc = "done") => y_out.kind = "value" /\ IsDict(y_out.v)

\* obj holds, at some depth, a one-element list whose element is a list
RECURSIVE HasWrapper(_)
HasWrapper(obj) ==
    IF IsDict(obj) THEN \E i \in 1..Len(obj.dict) : HasWrapper(obj.dict[i][2])
    ELSE IF IsList(obj)
    THEN \/ Len(obj.list) = 1 /\ IsList(obj.list[1])
         \/ \E i \in 1..Len(obj.list) : HasWrapper(obj.list[i])
    ELSE FALSE

\* C25: for every input text, the tree parse_dtc_yaml returns contains, at any
\* depth, no one-element list whose only element is itself a list.
C25_NoWrapperInReturnedTree ==
    (y_pc = "done") => y_out.kind = "value" /\ ~HasWrapper(y_out.v)

\* the tree built from the lines holds a wrapper around a wrapper, and the
\* returned tree holds none
C25_Witness ==
    /\ y_pc = "done"
    /\ \E i \in 1..Len(y_root) :
          /\ IsList(y_root[i][2])
          /\ Len(y_root[i][2].list) = 1
          /\ HasWrapper(y_root[i][2].list[1])
    /\ ~HasWrapper(y_out.v)

\* the width of the leading whitespace of a line, and the line without its
\* surrounding whitespace and trailing semicolons
LeadingWidth(line) == Len(line) - Len(lstrip(line, Whitespace))
Content(line) == lstrip(rstrip(rstrip(line, Whitespace), {";"}), Whitespace)
AfterColon(line) ==
    strip(SubSeq(Content(line), Find(Content(line), ":") + 1, Len(Content(line))), Whitespace)

\* the shapes of a line: `- item`, `key:` and `key: value`
IsItemLine(line) == startswith(Content(line), <<"-", " ">>)
IsMappingLine(line) ==
    /\ Content(line) # <<>>
    /\ Head(Content(line)) # "#"
    /\ ~IsItemLine(line)
    /\ Find(Content(line), ":") > 0
IsOpenerLine(line) == IsMappingLine(line) /\ AfterColon(line) = <<>>
IsKeyValueLine(line) == IsMappingLine(line) /\ AfterColon(line) # <<>>

\* the path of the mapping that the `key:` line j opened
MappingOpenedBy(j) ==
    LET frames == ForLines([root |-> <<>>, stack |-> InitialFrames, exc |-> None],
                           SubSeq(YamlLines, 1, j)).stack
    IN  frames[Len(frames)].path

\* the mapping opened by the nearest `key:` line before line i whose leading
\* whitespace is strictly narrower than that of line i, or the root
ScopeByIndentation(i) ==
    LET openers == {j \in 1..(i - 1) : /\ IsOpenerLine(YamlLines[j])
                                       /\ LeadingWidth(YamlLines[j])
                                              < LeadingWidth(YamlLines[i])}
    IN  IF openers = {} THEN <<>>
        ELSE MappingOpenedBy(CHOOSE j \in openers : \A k \in openers : k <= j)

\* C26: the nesting of the parsed tree mirrors indentation: each `key: value`
\* line is set on the mapping opened by the nearest preceding `key:` line of
\* strictly smaller leading-whitespace width, or on the root if there is
\* none, so that a key at the indentation of an earlier `key:` line becomes
\* that key's sibling, not its child.
C26_NestingMirrorsIndentation ==
    (/\ y_pc \in {"loop", "done"}
     /\ y_i > 1
     /\ IsKeyValueLine(YamlLines[y_i - 1])) =>
        y_stack[Len(y_stack)].path = ScopeByIndentation(y_i - 1)

\* a `- item` line that is no `- key: value` entry, and the value of its item
ItemText(line) == strip(SubSeq(Content(line), 3, Len(Content(line))), Whitespace)
IsPlainItemLine(line) ==
    /\ IsItemLine(line)
    /\ (Find(ItemText(line), ":") = 0 \/ startswith(ItemText(line), <<"\"">>))

\* the key of a `key:` or `key: value` line
KeyOfLine(line) ==
    _no_brackets(strip(strip(SubSeq(Content(line), 1, Find(Content(line), ":") - 1),
                             Whitespace),
                       {"\""}))

\* the mapping lines before line i that are not indented deeper than line i:
\* the nearest of them carries the enclosing key of line i
EnclosingLines(i) ==
    {j \in 1..(i - 1) : /\ IsMappingLine(YamlLines[j])
                        /\ LeadingWidth(YamlLines[j]) <= LeadingWidth(YamlLines[i])}
EnclosingKey(i) ==
    KeyOfLine(YamlLines[CHOOSE j \in EnclosingLines(i) : \A k \in EnclosingLines(i) : k <= j])

\* the values stored under key at any depth of the mapping d
RECURSIVE StoredUnder(_, _)
StoredUnder(d, key) ==
    {d[i][2] : i \in {k \in 1..Len(d) : d[k][1] = key}}
        \cup UNION {StoredUnder(d[i][2].dict, key) : i \in {k \in 1..Len(d) : IsDict(d[k][2])}}

\* C27: every plain sequence line `- item` that has an enclosing key is
\* appended to the sequence stored under the nearest enclosing key, also when
\* that key is a `key:` line without an inline value; no item is dropped.
C27_PlainItemsAreAppended ==
    (/\ y_pc \in {"loop", "done"}
     /\ y_i > 1
     /\ IsPlainItemLine(YamlLines[y_i - 1])
     /\ EnclosingLines(y_i - 1) # {}) =>
        \E v \in StoredUnder(y_root, EnclosingKey(y_i - 1)) :
            /\ IsList(v)
            /\ v.list # <<>>
            /\ v.list[Len(v.list)] = _parse_scalar(ItemText(YamlLines[y_i - 1]))

\* a line without its trailing whitespace and semicolons
Trimmed(line) == rstrip(line, Whitespace \cup {";"})

\* the locals of the parser after the first n lines, each taken without its
\* trailing whitespace and semicolons
AfterTrimmedLines(n) ==
    ForLines([root |-> <<>>, stack |-> InitialFrames, exc |-> None],
             [k \in 1..n |-> Trimmed(YamlLines[k])])

\* C29: the indentation width used for scoping a line is its leading
\* whitespace width only: trailing whitespace or a trailing semicolon on a
\* line changes neither the mapping the line is placed in nor the scopes
\* that are popped.
C29_TrailingCharactersDoNotScope ==
    (y_pc \in {"loop", "done"}) =>
        /\ AfterTrimmedLines(y_i - 1).exc = None
        /\ AfterTrimmedLines(y_i - 1).root = y_root
        /\ [k \in 1..Len(y_stack) |-> y_stack[k].path]
              = [k \in 1..Len(AfterTrimmedLines(y_i - 1).stack) |->
                    AfterTrimmedLines(y_i - 1).stack[k].path]

----------------------------------------------------------------------------
(* Properties of identify_overlays (SpecOverlays) *)

Returned == io_pc = "done" /\ io_out.kind = "value"
Failed == io_pc = "raised" /\ io_out.kind = "raise"
Names(list) == {list[i].str : i \in 1..Len(list)}

\* the *.dtbo entries that are regular files or symlinks resolving to one
RegularOrResolving(dir) == {e.name : e \in {x \in rglob_dtbo(dir) : is_file(x)}}

\* C21: on a UEFI boot identify_overlays returns the base file names of every
\* *.dtbo entry under <efi>/dtb/overlays that is a regular file or a symlink
\* resolving to a regular file, leaving out broken symlinks, and an empty
\* list when that directory does not exist.
C21_FirmwareListingFollowsLinks ==
    (io_pc = "done" /\ efi # NoneV) =>
        /\ io_out.kind = "value"
        /\ IF overlays_dir.exists /\ overlays_dir.is_dir
           THEN /\ Names(io_out.v) = RegularOrResolving(overlays_dir)
                /\ Len(io_out.v) = Cardinality(RegularOrResolving(overlays_dir))
           ELSE io_out.v = <<>>

\* the fdtoverlays entries of an extlinux config, global section first
FdtOverlaysOf(section) ==
    IF HasKey(section, <<"f", "d", "t", "o", "v", "e", "r", "l", "a", "y", "s">>) /\ IsList(GetItem(section, <<"f", "d", "t", "o", "v", "e", "r", "l", "a", "y", "s">>))
    THEN GetItem(section, <<"f", "d", "t", "o", "v", "e", "r", "l", "a", "y", "s">>).list
    ELSE <<>>
ExtlinuxOverlays(text) ==
    LET config == parse_extlinux_conf(text)
    IN  FdtOverlaysOf(config.global)
            \o Concat([i \in 1..Len(config.labels) |-> FdtOverlaysOf(config.labels[i][2])])

\* the u-boot config says it is set up and names its overlays in one string
UBootSetUpWithOverlays ==
    /\ uboot_file.exists
    /\ HasKey(parse_uboot(uboot_file).v, U_BOOT_FDT_OVERLAYS)
    /\ GetItem(parse_uboot(uboot_file).v, U_BOOT_IS_SETUP) = PyStr(<<"t", "r", "u", "e">>)
    /\ IsStr(GetItem(parse_uboot(uboot_file).v, U_BOOT_FDT_OVERLAYS))
OnlyExtlinuxPresent == ~uboot_file.exists /\ extlinux_file.exists

\* C22: on a non-UEFI boot identify_overlays returns the overlay list of the
\* boot config present on disk: the U_BOOT_FDT_OVERLAYS entries when the
\* u-boot config is the one set up, the fdtoverlays entries of
\* /boot/extlinux/extlinux.conf when only the extlinux config is present.
C22_OverlaysOfPresentBootConfig ==
    (io_pc \in {"done", "raised"} /\ booted_with_edk(journalctl) = Val(FALSE)) =>
        /\ UBootSetUpWithOverlays =>
              /\ Returned
              /\ io_out.v = [i \in 1..Len(split_sep(GetItem(parse_uboot(uboot_file).v,
                                                             U_BOOT_FDT_OVERLAYS).str, " "))
                                |-> PyStr(split_sep(GetItem(parse_uboot(uboot_file).v,
                                                            U_BOOT_FDT_OVERLAYS).str, " ")[i])]
        /\ OnlyExtlinuxPresent =>
              /\ Returned
              /\ io_out.v = ExtlinuxOverlays(extlinux_file.text)

\* C23: identify_overlays has two outcomes in every environment: it returns
\* a list of overlay names, or it fails with the EFI-directory-not-found
\* error, which happens only when a UEFI boot was detected and neither
\* /boot/efi nor /boot is a mount point; no other failure reaches the caller.
\* Stated for the hosts on which journalctl can be started.
C23_ListOrEfiDirectoryNotFound ==
    (io_pc \in {"done", "raised"} /\ journalctl.installed) =>
        \/ Returned
        \/ /\ Failed
           /\ io_out.exc = "OSError"
           /\ booted_with_edk(journalctl) = Val(TRUE)
           /\ df.installed
           /\ (df.rc = 0) => boot_mounts(df.stdout) \cap {<<"/", "b", "o", "o", "t", "/", "e", "f", "i">>, <<"/", "b", "o", "o", "t">>} = {}


====
